---- MODULE Spec2Model ----
(***************************************************************************)
(* Gemini <-> OpenAI translation engine of copilot-api.                    *)
(*                                                                         *)
(*   Spec        translateGeminiToOpenAI: the two passes over contents     *)
(*               (tool_call id generation, call/response correlation),     *)
(*               and the trailing tool-message guard.                      *)
(*   SpecResponse  translateOpenAIToGemini on a complete response or a     *)
(*               stream chunk, and the serialisation of its result.        *)
(*   SpecSchema  addAdditionalPropertiesFalse followed by                  *)
(*               validateSchemaForStrictMode on one JSON schema.           *)
(***************************************************************************)
EXTENDS Integers, Sequences, FiniteSets, TLC

\* ------------------------------------------------------------------------
\* Bounds of the model
\* ------------------------------------------------------------------------
MaxContents == 3
MaxNow == 1
MaxChoices == 2
MaxDepth == 2
MaxTools == 2
MaxEvents == 3

\* ------------------------------------------------------------------------
\* JavaScript values that are not strings
\* ------------------------------------------------------------------------
Undefined == "<undefined>"
Null == "<null>"

Truthy(s) == s # Undefined /\ s # Null /\ s # ""

Last(s) == s[Len(s)]

RECURSIVE Flatten(_)
Flatten(seqs) == IF Len(seqs) = 0 THEN <<>> ELSE seqs[1] \o Flatten(Tail(seqs))

\* ------------------------------------------------------------------------
\* Gemini parts (gemini-types: a part is recognised by the key it carries)
\* ------------------------------------------------------------------------
isTextPart(part) == "text" \in DOMAIN part
isInlineDataPart(part) == "inlineData" \in DOMAIN part
isFunctionCallPart(part) == "functionCall" \in DOMAIN part
isFunctionResponsePart(part) == "functionResponse" \in DOMAIN part

TextPart(t) == [text |-> t]
InlineDataPart == [inlineData |-> [mimeType |-> "image/png", data |-> "AAAA"]]
\* args and response are JSON objects, kept as sequences of <<key, value>>
FunctionCallPart(n) == [functionCall |-> [name |-> n, args |-> << <<"p", "v">> >>]]
FunctionResponsePart(id, n) ==
  [functionResponse |-> [id |-> id, name |-> n, response |-> << <<"output", n>> >>]]

\* ------------------------------------------------------------------------
\* Pure helpers of translation.ts
\* ------------------------------------------------------------------------
RECURSIVE JoinStrings(_, _)
JoinStrings(strs, sep) ==
  IF Len(strs) = 0 THEN ""
  ELSE IF Len(strs) = 1 THEN strs[1]
  ELSE strs[1] \o sep \o JoinStrings(Tail(strs), sep)

RECURSIVE StringifyEntries(_)
StringifyEntries(pairs) ==
  IF Len(pairs) = 0 THEN ""
  ELSE "\"" \o pairs[1][1] \o "\":\"" \o pairs[1][2] \o "\""
       \o (IF Len(pairs) > 1 THEN "," ELSE "")
       \o StringifyEntries(Tail(pairs))

\* JSON.stringify of a flat object with string values
JSONStringify(obj) == "{" \o StringifyEntries(obj) \o "}"

TextsOf(parts) ==
  LET tp == SelectSeq(parts, isTextPart)
  IN [i \in 1..Len(tp) |-> tp[i].text]

extractTextFromParts(parts) == JoinStrings(TextsOf(parts), "\n\n")

translateGeminiRoleToOpenAI(content) ==
  IF "role" \notin DOMAIN content THEN "user"
  ELSE IF content.role = "model" THEN "assistant"
  ELSE content.role

RECURSIVE ContentPartsOf(_)
ContentPartsOf(parts) ==
  IF Len(parts) = 0 THEN <<>>
  ELSE LET part == parts[1]
           rest == ContentPartsOf(Tail(parts))
       IN IF isTextPart(part)
            THEN <<[type |-> "text", text |-> part.text]>> \o rest
          ELSE IF isInlineDataPart(part)
            THEN <<[type |-> "image_url",
                    image_url |-> [url |-> "data:" \o part.inlineData.mimeType
                                           \o ";base64," \o part.inlineData.data]]>>
                 \o rest
          ELSE rest

translateGeminiPartsToOpenAI(parts) ==
  IF \A i \in 1..Len(parts) : ~isInlineDataPart(parts[i])
    THEN extractTextFromParts(parts)
  ELSE IF Len(ContentPartsOf(parts)) > 0 THEN ContentPartsOf(parts)
  ELSE Null

\* `call_${name}_${Date.now()}_${globalCallIndex}`
GenerateId_NoIndex(name, t, index) ==
  "call_" \o name \o "_" \o ToString(t)

GenerateId(name, t, index) ==
  "call_" \o name \o "_" \o ToString(t) \o "_" \o ToString(index)

\* toolCallIdQueue[queueIndex] with a 0-based index: out of range is undefined
QueueAt(queue, queueIndex) ==
  IF queueIndex >= 0 /\ queueIndex < Len(queue) THEN queue[queueIndex + 1]
  ELSE Undefined

FunctionCallsOf(content) == SelectSeq(content.parts, isFunctionCallPart)
FunctionResponsesOf(content) == SelectSeq(content.parts, isFunctionResponsePart)

\* functionCalls.map(...): the k-th call takes the queue entry at idIndex + k - 1
ToolCallsOf(fcs, queue, idIndex) ==
  [k \in 1..Len(fcs) |->
     [id |-> QueueAt(queue, idIndex + k - 1),
      type |-> "function",
      function |-> [name |-> fcs[k].functionCall.name,
                    arguments |-> JSONStringify(fcs[k].functionCall.args)]]]

AssistantTextContent(content) ==
  IF extractTextFromParts(content.parts) = "" THEN Null
  ELSE extractTextFromParts(content.parts)

IsDuplicate_Never(responseId, seenIds) == FALSE

\* if (responseId && seenIds.has(responseId)) continue
IsDuplicate(responseId, seenIds) == Truthy(responseId) /\ responseId \in seenIds

\* the loop over functionResponses: frs are the parts still to visit, total is
\* functionResponses.length, responseIndex counts the parts that were not skipped
RECURSIVE ToolMessagesOf(_, _, _, _, _, _)
ToolMessagesOf(frs, total, seenIds, responseIndex, queue, idIndex) ==
  IF Len(frs) = 0 THEN <<>>
  ELSE LET fr == frs[1].functionResponse
           responseId == fr.id
       IN IF IsDuplicate(responseId, seenIds)
            THEN ToolMessagesOf(Tail(frs), total, seenIds, responseIndex, queue, idIndex)
          ELSE LET seen == IF Truthy(responseId) THEN seenIds \cup {responseId}
                           ELSE seenIds
                   queueIndex == idIndex - total + responseIndex
               IN <<[role |-> "tool",
                     tool_call_id |-> QueueAt(queue, queueIndex),
                     content |-> JSONStringify(fr.response)]>>
                  \o ToolMessagesOf(Tail(frs), total, seen, responseIndex + 1,
                                    queue, idIndex)

NeedsUserMessage_Never(msgs) == FALSE

\* messages.length > 0 && messages[messages.length - 1].role === "tool"
NeedsUserMessage(msgs) == Len(msgs) > 0 /\ Last(msgs).role = "tool"

ContinueMessage == [role |-> "user", content |-> "Please continue with the next step."]

\* ------------------------------------------------------------------------
\* JSON values: a value is a record whose only key names its kind
\* ------------------------------------------------------------------------
JNull == [null |-> TRUE]
JBool(b) == [bool |-> b]
JStr(str) == [str |-> str]
JArr(elems) == [arr |-> elems]
JObj(fields) == [obj |-> fields]

IsNull(v) == "null" \in DOMAIN v
IsStr(v) == "str" \in DOMAIN v
IsArr(v) == "arr" \in DOMAIN v
IsObj(v) == "obj" \in DOMAIN v

\* typeof v === "object" && v !== null
IsObjectLike(v) == IsObj(v) \/ IsArr(v)

\* Object.entries: the fields of an object, the elements of an array under
\* their indices
EntriesOf(v) ==
  IF IsObj(v) THEN v.obj
  ELSE [key \in {ToString(i - 1) : i \in 1..Len(v.arr)} |->
          v.arr[CHOOSE i \in 1..Len(v.arr) : ToString(i - 1) = key]]

\* key in v: an array also answers to "length"
HasKey(v, key) == key \in DOMAIN EntriesOf(v) \/ (IsArr(v) /\ key = "length")

\* the order in which an object lists its keys
KeyOrder ==
  <<"type", "function", "name", "description", "parameters", "strict", "properties",
    "items", "required", "additionalProperties", "enum", "nullable", "$ref", "not",
    "a", "b", "0", "1">>

KeysOf(fields) == SelectSeq(KeyOrder, LAMBDA key : key \in DOMAIN fields)

\* ------------------------------------------------------------------------
\* addAdditionalPropertiesFalse
\* ------------------------------------------------------------------------
RECURSIVE addAdditionalPropertiesFalse(_)

RewriteProperty_Copy(propValue) == propValue

\* one entry of properties: objects are rewritten, arrays and primitives copied
RewriteProperty(propValue) ==
  IF IsObj(propValue) THEN addAdditionalPropertiesFalse(propValue) ELSE propValue

RewriteValue(key, value) ==
  IF key = "properties" /\ IsObjectLike(value)
    THEN JObj([propKey \in DOMAIN EntriesOf(value) |->
                 RewriteProperty(EntriesOf(value)[propKey])])
  ELSE IF key = "items" /\ IsObj(value) THEN addAdditionalPropertiesFalse(value)
  ELSE IF IsArr(value) THEN value
  ELSE IF IsObj(value) THEN addAdditionalPropertiesFalse(value)
  ELSE value

StampObject_Toggle(result) ==
  IF "type" \in DOMAIN result /\ result["type"] = JStr("object")
    THEN [key \in DOMAIN result \cup {"additionalProperties"} |->
            IF key = "additionalProperties"
              THEN JBool("additionalProperties" \in DOMAIN result
                         /\ result["additionalProperties"] = JBool(FALSE))
            ELSE result[key]]
  ELSE result

StampObject_IfAbsent(result) ==
  IF "type" \in DOMAIN result /\ result["type"] = JStr("object")
     /\ "additionalProperties" \notin DOMAIN result
    THEN [key \in DOMAIN result \cup {"additionalProperties"} |->
            IF key = "additionalProperties" THEN JBool(FALSE) ELSE result[key]]
  ELSE result

\* if (result.type === "object") result.additionalProperties = false
StampObject(result) ==
  IF "type" \in DOMAIN result /\ result["type"] = JStr("object")
    THEN [key \in DOMAIN result \cup {"additionalProperties"} |->
            IF key = "additionalProperties" THEN JBool(FALSE) ELSE result[key]]
  ELSE result

addAdditionalPropertiesFalse(node) ==
  JObj(StampObject([key \in DOMAIN node.obj |-> RewriteValue(key, node.obj[key])]))

\* ------------------------------------------------------------------------
\* addAdditionalPropertiesFalse on the heap: objects and arrays are nodes at
\* addresses, a cell holds a primitive or a reference, and a write changes the
\* node at one address
\* ------------------------------------------------------------------------
IsRef(cell) == "ref" \in DOMAIN cell
Ref(address) == [ref |-> address]

IndexOf(keys, key) == CHOOSE i \in 1..Len(keys) : keys[i] = key

RECURSIVE Alloc(_, _)
RECURSIVE AllocSeq(_, _)
\* the caller's schema as it lies in memory
AllocSeq(h, values) ==
  IF Len(values) = 0 THEN [h |-> h, cells |-> <<>>]
  ELSE LET first == Alloc(h, values[1])
           rest == AllocSeq(first.h, Tail(values))
       IN [h |-> rest.h, cells |-> <<first.cell>> \o rest.cells]

Alloc(h, value) ==
  IF IsObj(value)
    THEN LET keys == KeysOf(value.obj)
             r == AllocSeq(h, [i \in 1..Len(keys) |-> value.obj[keys[i]]])
             node == [obj |-> [key \in DOMAIN value.obj |-> r.cells[IndexOf(keys, key)]]]
         IN [h |-> Append(r.h, node), cell |-> Ref(Len(r.h) + 1)]
  ELSE IF IsArr(value)
    THEN LET r == AllocSeq(h, value.arr)
         IN [h |-> Append(r.h, [arr |-> r.cells]), cell |-> Ref(Len(r.h) + 1)]
  ELSE [h |-> h, cell |-> value]

\* the JSON value a cell stands for
RECURSIVE Deref(_, _)
Deref(h, cell) ==
  IF ~IsRef(cell) THEN cell
  ELSE IF IsObj(h[cell.ref])
    THEN JObj([key \in DOMAIN h[cell.ref].obj |-> Deref(h, h[cell.ref].obj[key])])
  ELSE JArr([i \in 1..Len(h[cell.ref].arr) |-> Deref(h, h[cell.ref].arr[i])])

IsObjRef(h, cell) == IsRef(cell) /\ IsObj(h[cell.ref])
IsArrRef(h, cell) == IsRef(cell) /\ IsArr(h[cell.ref])

\* [...value]: a new array holding the same elements
CloneArray(h, cell) ==
  [h |-> Append(h, h[cell.ref]), cell |-> Ref(Len(h) + 1)]

\* the object the stamp is written to
StampTarget_Input(schemaAddress, resultAddress) == schemaAddress

StampTarget(schemaAddress, resultAddress) == resultAddress

\* result.additionalProperties = false
WriteAdditionalProperties(h, address) ==
  [h EXCEPT ![address] =
     [obj |-> [key \in DOMAIN h[address].obj \cup {"additionalProperties"} |->
                 IF key = "additionalProperties" THEN JBool(FALSE)
                 ELSE h[address].obj[key]]]]

RECURSIVE RewriteNode(_, _)
RECURSIVE RewriteEntries(_, _, _, _)
RECURSIVE RewritePropertyCells(_, _, _)

\* one entry of properties
RewritePropertyCell(h, cell) ==
  IF IsObjRef(h, cell) THEN RewriteNode(h, cell.ref)
  ELSE IF IsArrRef(h, cell) THEN CloneArray(h, cell)
  ELSE [h |-> h, cell |-> cell]

\* Object.entries(properties).map(...), from the i-th entry on
RewritePropertyCells(h, cells, i) ==
  IF i > Len(cells) THEN [h |-> h, cells |-> <<>>]
  ELSE LET first == RewritePropertyCell(h, cells[i])
           rest == RewritePropertyCells(first.h, cells, i + 1)
       IN [h |-> rest.h, cells |-> <<first.cell>> \o rest.cells]

\* Object.entries of the node at an address
HeapEntriesOf(h, address) ==
  IF IsObj(h[address]) THEN h[address].obj
  ELSE [key \in {ToString(i - 1) : i \in 1..Len(h[address].arr)} |->
          h[address].arr[CHOOSE i \in 1..Len(h[address].arr) : ToString(i - 1) = key]]

\* result.properties = Object.fromEntries(...)
RewriteProperties(h, cell) ==
  LET entries == HeapEntriesOf(h, cell.ref)
      keys == KeysOf(entries)
      r == RewritePropertyCells(h, [i \in 1..Len(keys) |-> entries[keys[i]]], 1)
      node == [obj |-> [key \in DOMAIN entries |-> r.cells[IndexOf(keys, key)]]]
  IN [h |-> Append(r.h, node), cell |-> Ref(Len(r.h) + 1)]

\* one key of the schema, by the branch the loop takes for it
RewriteCell(h, key, cell) ==
  IF key = "properties" /\ IsRef(cell) THEN RewriteProperties(h, cell)
  ELSE IF key = "items" /\ IsObjRef(h, cell) THEN RewriteNode(h, cell.ref)
  ELSE IF IsArrRef(h, cell) THEN CloneArray(h, cell)
  ELSE IF IsObjRef(h, cell) THEN RewriteNode(h, cell.ref)
  ELSE [h |-> h, cell |-> cell]

\* the loop, from the i-th entry on
RewriteEntries(h, cells, keys, i) ==
  IF i > Len(cells) THEN [h |-> h, cells |-> <<>>]
  ELSE LET first == RewriteCell(h, keys[i], cells[i])
           rest == RewriteEntries(first.h, cells, keys, i + 1)
       IN [h |-> rest.h, cells |-> <<first.cell>> \o rest.cells]

\* addAdditionalPropertiesFalse(schema), schema being the object at address
RewriteNode(h, address) ==
  LET fields == h[address].obj
      keys == KeysOf(fields)
      r == RewriteEntries(h, [i \in 1..Len(keys) |-> fields[keys[i]]], keys, 1)
      result == [obj |-> [key \in DOMAIN fields |-> r.cells[IndexOf(keys, key)]]]
      allocated == Append(r.h, result)
      resultAddress == Len(allocated)
  IN [h |-> IF "type" \in DOMAIN fields /\ fields["type"] = JStr("object")
              THEN WriteAdditionalProperties(allocated,
                                             StampTarget(address, resultAddress))
            ELSE allocated,
      cell |-> Ref(resultAddress)]

\* ------------------------------------------------------------------------
\* validateSchemaForStrictMode (schema-validator)
\* ------------------------------------------------------------------------
\* { path, message, schema }
ValidationError(path, message, schemaValue) ==
  [path |-> path, message |-> message, schema |-> schemaValue]

MsgAdditionalProperties ==
  "Object type must have \"additionalProperties: false\" for strict mode"
MsgProperties == "Object type must have a \"properties\" field (can be empty object)"
MsgItems == "Array type must have an \"items\" definition for strict mode"
MsgNullable ==
  "The \"nullable\" field is not supported in strict mode. Use union types with null instead."
MsgRef ==
  "The \"$ref\" field is not supported in strict mode. All references must be resolved."

RECURSIVE validateSchemaForStrictMode(_, _)
validateSchemaForStrictMode(node, path) ==
  IF IsNull(node)
    THEN [valid |-> FALSE,
          errors |-> <<ValidationError(path, "Schema cannot be null or undefined", node)>>]
  ELSE IF ~IsObjectLike(node)
    THEN [valid |-> FALSE,
          errors |-> <<ValidationError(path, "Schema must be an object", node)>>]
  ELSE
    LET schemaObj == EntriesOf(node)
        keys == KeysOf(schemaObj)
        Has(key) == key \in DOMAIN schemaObj
        TypeIs(t) == Has("type") /\ schemaObj["type"] = JStr(t)
        nullErrors ==
          Flatten([i \in 1..Len(keys) |->
                     IF IsNull(schemaObj[keys[i]])
                       THEN <<ValidationError(path \o "." \o keys[i],
                                "Field \"" \o keys[i] \o "\" has null or undefined value, "
                                \o "which is not allowed in strict mode", node)>>
                     ELSE <<>>])
        rule1 ==
          IF Has("additionalProperties") /\ schemaObj["additionalProperties"] = JBool(FALSE)
            THEN <<>>
          ELSE <<ValidationError(path, MsgAdditionalProperties, node)>>
        rule2 ==
          IF ~Has("properties") THEN <<ValidationError(path, MsgProperties, node)>>
          ELSE IF IsObjectLike(schemaObj["properties"])
            THEN LET properties == EntriesOf(schemaObj["properties"])
                     propKeys == KeysOf(properties)
                 IN Flatten([i \in 1..Len(propKeys) |->
                               validateSchemaForStrictMode(
                                 properties[propKeys[i]],
                                 path \o ".properties." \o propKeys[i]).errors])
          ELSE <<>>
        rule5 ==
          IF Has("required") /\ IsArr(schemaObj["required"])
            THEN LET required == schemaObj["required"].arr
                     Missing(field) ==
                       IF ~Has("properties") THEN TRUE
                       ELSE IF ~IsObjectLike(schemaObj["properties"]) THEN TRUE
                       ELSE ~HasKey(schemaObj["properties"], field)
                 IN Flatten([i \in 1..Len(required) |->
                               IF IsStr(required[i]) /\ Missing(required[i].str)
                                 THEN <<ValidationError(path,
                                          "Required field \"" \o required[i].str
                                          \o "\" not found in properties", node)>>
                               ELSE <<>>])
          ELSE <<>>
        objectErrors == IF TypeIs("object") THEN rule1 \o rule2 \o rule5 ELSE <<>>
        arrayErrors ==
          IF TypeIs("array")
            THEN IF ~Has("items") THEN <<ValidationError(path, MsgItems, node)>>
                 ELSE validateSchemaForStrictMode(schemaObj["items"], path \o ".items").errors
          ELSE <<>>
        nullableErrors ==
          IF Has("nullable") THEN <<ValidationError(path, MsgNullable, node)>> ELSE <<>>
        refErrors == IF Has("$ref") THEN <<ValidationError(path, MsgRef, node)>> ELSE <<>>
        errors == nullErrors \o objectErrors \o arrayErrors \o nullableErrors \o refErrors
    IN [valid |-> Len(errors) = 0, errors |-> errors]

\* ------------------------------------------------------------------------
\* Schemas handed to the rewriter
\* ------------------------------------------------------------------------
StringSchema == JObj([type |-> JStr("string")])

LeafSchemas ==
  { StringSchema,
    JObj(<<>>),
    JObj([type |-> JStr("string"), description |-> JNull]),
    JObj([type |-> JStr("string"), nullable |-> JBool(TRUE)]),
    JObj([type |-> JStr("string"), enum |-> JArr(<<JStr("x"), JStr("y")>>)]),
    JObj("$ref" :> JStr("#/defs/x")),
    JObj([type |-> JStr("object")]),
    JObj([type |-> JStr("object"), properties |-> JObj(<<>>)]),
    JObj([type |-> JStr("object"), properties |-> JObj(<<>>),
          additionalProperties |-> JBool(TRUE)]),
    JObj([type |-> JStr("array")]) }

SchemasOver(child) ==
  { JObj([type |-> JStr("object"), properties |-> JObj([a |-> child])]),
    JObj([type |-> JStr("object"), properties |-> JObj([a |-> child, b |-> StringSchema]),
          required |-> JArr(<<JStr("a"), JStr("b")>>)]),
    JObj([type |-> JStr("object"), properties |-> JObj([a |-> child]),
          required |-> JArr(<<JStr("b")>>), additionalProperties |-> JBool(FALSE)]),
    JObj([type |-> JStr("object"), properties |-> JArr(<<child>>),
          required |-> JArr(<<JStr("length")>>)]),
    JObj([type |-> JStr("array"), items |-> child]),
    JObj([type |-> JStr("array"), items |-> JArr(<<child>>)]),
    JObj([type |-> JStr("string"), not |-> child]) }

RECURSIVE Schemas(_)
Schemas(depth) ==
  IF depth = 0 THEN LeafSchemas
  ELSE LeafSchemas \cup UNION {SchemasOver(child) : child \in Schemas(depth - 1)}

\* ------------------------------------------------------------------------
\* JSON.stringify of a JSON value (the strings of the model need no escaping)
\* ------------------------------------------------------------------------
Quote(str) == "\"" \o str \o "\""

RECURSIVE StringifyValue(_)
StringifyValue(v) ==
  IF IsNull(v) THEN "null"
  ELSE IF "bool" \in DOMAIN v THEN (IF v.bool THEN "true" ELSE "false")
  ELSE IF IsStr(v) THEN Quote(v.str)
  ELSE IF IsArr(v)
    THEN "[" \o JoinStrings([i \in 1..Len(v.arr) |-> StringifyValue(v.arr[i])], ",") \o "]"
  ELSE LET keys == KeysOf(v.obj)
       IN "{" \o JoinStrings([i \in 1..Len(keys) |->
                               Quote(keys[i]) \o ":" \o StringifyValue(v.obj[keys[i]])],
                             ",")
          \o "}"

\* a JSON value taken as a condition
JsTruthy(v) ==
  /\ ~IsNull(v)
  /\ v # JBool(FALSE)
  /\ v # JStr("")

\* str.slice(0, n)
Slice(str, n) == SubSeq(str, 1, IF Len(str) < n THEN Len(str) ELSE n)

\* ------------------------------------------------------------------------
\* translateGeminiToolsToOpenAI
\* ------------------------------------------------------------------------
MinimalSchema ==
  JObj([type |-> JStr("object"), properties |-> JObj(<<>>),
        additionalProperties |-> JBool(FALSE)])

\* obj[key] is there and truthy
HasTruthy(obj, key) == key \in DOMAIN obj.obj /\ JsTruthy(obj.obj[key])

ParametersOf_ParametersFirst(f) ==
  IF HasTruthy(f, "parameters") THEN <<f.obj["parameters"]>>
  ELSE IF HasTruthy(f, "parametersJsonSchema") THEN <<f.obj["parametersJsonSchema"]>>
  ELSE <<>>

\* f.parametersJsonSchema || f.parameters, absent when neither is truthy
ParametersOf(f) ==
  IF HasTruthy(f, "parametersJsonSchema") THEN <<f.obj["parametersJsonSchema"]>>
  ELSE IF HasTruthy(f, "parameters") THEN <<f.obj["parameters"]>>
  ELSE <<>>

\* the tool pushed for one function declaration; a key whose value is
\* undefined is a key the tool does not have
TranslateDeclaration(f) ==
  LET params == ParametersOf(f)
      parameters ==
        IF Len(params) = 0 \/ Cardinality(DOMAIN EntriesOf(params[1])) = 0
          THEN MinimalSchema
        ELSE addAdditionalPropertiesFalse(params[1])
      copied == [key \in {"name", "description"} \cap DOMAIN f.obj |-> f.obj[key]]
  IN JObj([key \in {"type", "function"} |->
             IF key = "type" THEN JStr("function")
             ELSE JObj([k \in DOMAIN copied \cup {"parameters", "strict"} |->
                          IF k = "parameters" THEN parameters
                          ELSE IF k = "strict" THEN JBool(TRUE)
                          ELSE copied[k]])])

DeclarationsOf(tool) ==
  IF "functionDeclarations" \in DOMAIN tool THEN tool.functionDeclarations ELSE <<>>

\* payload.tools and the result are optional: a sequence of length 0 or 1
translateGeminiToolsToOpenAI(geminiTools) ==
  IF Len(geminiTools) = 0 THEN <<>>
  ELSE LET list == geminiTools[1]
           translated ==
             Flatten([i \in 1..Len(list) |->
                        [j \in 1..Len(DeclarationsOf(list[i])) |->
                           TranslateDeclaration(DeclarationsOf(list[i])[j])]])
       IN IF Len(translated) > 0 THEN <<translated>> ELSE <<>>

\* ------------------------------------------------------------------------
\* validateToolsForStrictMode, formatValidationErrors (schema-validator)
\* ------------------------------------------------------------------------
\* `${tool.type}`
TypeText(tool) ==
  IF "type" \notin DOMAIN tool.obj THEN "undefined"
  ELSE IF IsStr(tool.obj["type"]) THEN tool.obj["type"].str
  ELSE StringifyValue(tool.obj["type"])

\* one iteration of the loop over tools.entries(), i counted from 0
ToolErrors(tool, i) ==
  LET at == "tools[" \o ToString(i) \o "]"
  IN IF ~("type" \in DOMAIN tool.obj /\ tool.obj["type"] = JStr("function"))
       THEN <<ValidationError(at \o ".type",
                "Tool type must be \"function\", got \"" \o TypeText(tool) \o "\"",
                tool)>>
     ELSE
       LET fn == tool.obj["function"]
           nameErrors ==
             IF HasTruthy(fn, "name") THEN <<>>
             ELSE <<ValidationError(at \o ".function.name",
                                    "Tool function name is required", tool)>>
           schemaErrors ==
             IF "strict" \in DOMAIN fn.obj /\ fn.obj["strict"] = JBool(TRUE)
               THEN validateSchemaForStrictMode(
                      IF "parameters" \in DOMAIN fn.obj THEN fn.obj["parameters"]
                      ELSE JNull,
                      at \o ".function.parameters").errors
             ELSE <<>>
       IN nameErrors \o schemaErrors

validateToolsForStrictMode(openAIToolList) ==
  LET errors ==
        Flatten([i \in 1..Len(openAIToolList) |-> ToolErrors(openAIToolList[i], i - 1)])
  IN [valid |-> Len(errors) = 0, errors |-> errors]

\* the report of one error, i counted from 1
FormatError(error, i) ==
  ToString(i) \o ". [" \o error.path \o "] " \o error.message
  \o (IF JsTruthy(error.schema)
        THEN "\n   Schema: " \o Slice(StringifyValue(error.schema), 100) \o "..."
      ELSE "")

formatValidationErrors_FirstOnly(errors) ==
  IF Len(errors) = 0 THEN "No validation errors" ELSE FormatError(errors[1], 1)

formatValidationErrors(errors) ==
  IF Len(errors) = 0 THEN "No validation errors"
  ELSE JoinStrings([i \in 1..Len(errors) |-> FormatError(errors[i], i)], "\n\n")

\* new Error(`Invalid tool schema for OpenAI strict mode:\n${...}`).message
ToolSchemaErrorMessage(errors) ==
  "Invalid tool schema for OpenAI strict mode:\n" \o formatValidationErrors(errors)

\* ------------------------------------------------------------------------
\* Tools of the inbound payload
\* ------------------------------------------------------------------------
ObjectSchema(properties) == JObj([type |-> JStr("object"), properties |-> properties])

FunctionDeclarations ==
  { \* a schema the rewriter makes compliant
    JObj([name |-> JStr("f"), description |-> JStr("d"),
          parameters |-> ObjectSchema(JObj([a |-> StringSchema]))]),
    \* no parameters at all
    JObj([name |-> JStr("f_0")]),
    \* an object type without properties
    JObj([name |-> JStr("f"), parametersJsonSchema |-> JObj([type |-> JStr("object")])]),
    \* two violations at two nodes
    JObj([name |-> JStr("f"),
          parameters |->
            ObjectSchema(JObj([a |-> JObj([type |-> JStr("array")]),
                               b |-> JObj([type |-> JStr("string"),
                                           nullable |-> JBool(TRUE)])]))]),
    \* no name, empty parameters
    JObj([parameters |-> JObj(<<>>)]),
    \* both fields: parametersJsonSchema wins
    JObj([name |-> JStr("f"),
          parametersJsonSchema |-> ObjectSchema(JObj(<<>>)),
          parameters |-> JObj([type |-> JStr("array")])]),
    \* an empty name and an unresolved reference
    JObj([name |-> JStr(""), parameters |-> JObj("$ref" :> JStr("#/defs/x"))]),
    \* a schema for the tool's output next to the one for its input
    JObj([name |-> JStr("f"), parameters |-> ObjectSchema(JObj([a |-> StringSchema])),
          responseJsonSchema |-> ObjectSchema(JObj([b |-> StringSchema]))]),
    \* an empty parametersJsonSchema next to parameters, and an output schema
    JObj([name |-> JStr("f_0"), parametersJsonSchema |-> JObj(<<>>),
          parameters |-> ObjectSchema(JObj([a |-> StringSchema])),
          responseJsonSchema |-> JObj(<<>>)]) }

GeminiTools ==
  { [codeExecution |-> JObj(<<>>)],
    [functionDeclarations |-> <<>>],
    [functionDeclarations |->
       <<JObj([name |-> JStr("f_0")]),
         JObj([name |-> JStr("f"), parameters |-> JObj([type |-> JStr("array")])])>>] }
  \cup { [functionDeclarations |-> <<f>>] : f \in FunctionDeclarations }

\* payload.tools: absent, or a list of at most MaxTools tools
ToolLists ==
  {<<>>} \cup { <<list>> : list \in UNION { [1..n -> GeminiTools] : n \in 0..MaxTools } }

\* ------------------------------------------------------------------------
\* Inbound payloads
\* ------------------------------------------------------------------------
Names == {"f", "f_0"}

TextContents ==
  { [role |-> "user", parts |-> <<TextPart("Hi")>>],
    [role |-> "model", parts |-> <<TextPart("Hi"), TextPart("there")>>],
    [parts |-> <<TextPart("Hi"), InlineDataPart>>] }

CallContents ==
  { [role |-> "model", parts |-> <<FunctionCallPart("f")>>],
    [role |-> "model", parts |-> <<FunctionCallPart("f"), FunctionCallPart("f")>>],
    [role |-> "model", parts |-> <<TextPart("Hi"), FunctionCallPart("f"),
                                   FunctionCallPart("f_0")>>] }

ResponseContents ==
  { [role |-> "user", parts |-> <<FunctionResponsePart(Undefined, "f")>>],
    [role |-> "user", parts |-> <<FunctionResponsePart("r1", "f"),
                                  FunctionResponsePart("r1", "f")>>],
    [role |-> "user", parts |-> <<FunctionResponsePart("r1", "f"),
                                  FunctionResponsePart("r2", "f_0")>>] }

GeminiContents == TextContents \cup CallContents \cup ResponseContents

\* an optional value is a sequence of length 0 (absent) or 1
SystemInstructions ==
  { <<>>, <<[parts |-> <<>>]>>, <<[parts |-> <<TextPart("Be brief")>>]>> }

Conversations == UNION { [1..n -> GeminiContents] : n \in 0..MaxContents }

\* ------------------------------------------------------------------------
\* State
\* ------------------------------------------------------------------------
VARIABLES
  contents,          \* payload.contents
  systemInstruction, \* payload.systemInstruction
  pc,                \* position inside translateGeminiToOpenAI
  ci,                \* index of the content the running loop is at
  fi,                \* first pass: calls of contents[ci] that already have an id
  now,               \* last value Date.now() returned
  toolCallIdQueue,
  globalCallIndex,
  toolCallIdIndex,
  messages,
  response,          \* the backend's response or stream chunk
  rpc,               \* position of the response translation
  geminiResponse,    \* what translateOpenAIToGemini returned
  wire,              \* JSON sent to the client
  schema,            \* the schema handed to the rewriter
  spc,               \* position of the schema pipeline
  rewritten,         \* what addAdditionalPropertiesFalse returned
  validation,        \* what validateSchemaForStrictMode returned
  heap,              \* the objects and arrays of the schemas, by address
  root,              \* the cell holding the caller's schema
  rewrittenCell,     \* the cell holding the rewriter's result
  again,             \* what the rewriter returned for its own result
  tools,             \* payload.tools
  openAITools,       \* what translateGeminiToolsToOpenAI returned
  toolsValidation,   \* what validateToolsForStrictMode returned
  thrown,            \* the message of the error translateGeminiToOpenAI threw
  backendRequests,   \* the payloads createChatCompletions was called with
  reply,             \* the error response of the handler
  upstream,          \* the events the backend's stream yields, in order
  eventCount,        \* how many of them the handler's loop has received
  streaming,         \* whether the handler's loop is still running
  sse,               \* what stream.writeSSE was called with, in order
  request,           \* the HTTP request handleGenerateContent was called with
  hpc,               \* position of handleGenerateContent
  backendError,      \* the HTTPError createChatCompletions threw
  anthropicMessages, \* the messages handed to validateAndCleanupToolConversations
  cpc,               \* position of the cleanup
  cleaned,           \* what validateAndCleanupToolConversations returned
  incomplete,        \* what hasIncompleteToolConversations said of it
  cleanedAgain,      \* what the cleanup returned for its own result
  generationConfig,  \* payload.generationConfig
  fpc,               \* position of the response-format translation
  responseFormat,    \* what translateGeminiResponseFormatToOpenAI returned
  lastFinishReason,  \* handleGeminiStream: the last finishReason it translated
  inflight,          \* the requests being handled at the same time, by name
  finishReasons      \* the lastFinishReason of each running handleGeminiStream

translateVars == <<contents, systemInstruction, pc, ci, fi, now, toolCallIdQueue,
                   globalCallIndex, toolCallIdIndex, messages>>

responseVars == <<response, rpc, geminiResponse, wire>>

schemaVars == <<schema, spc, rewritten, validation, heap, root, rewrittenCell, again>>

\* what the tool translation leaves alone once it has run
toolsRest == <<tools, toolsValidation, thrown, backendRequests, reply>>

toolsVars == <<openAITools, toolsRest>>

streamVars == <<upstream, eventCount, streaming, sse>>

handlerVars == <<request, hpc, backendError>>

\* the state of the parts modelled further down
cleanupVars == <<anthropicMessages, cpc, cleaned, incomplete, cleanedAgain>>

formatVars == <<generationConfig, fpc, responseFormat>>

concurrentVars == <<inflight, finishReasons>>

extraVars == <<handlerVars, cleanupVars, formatVars, lastFinishReason, concurrentVars>>

vars == <<translateVars, responseVars, schemaVars, toolsVars, streamVars, extraVars>>

input == <<contents, systemInstruction>>

\* what the steps after the two loops leave alone
afterLoops == <<input, ci, fi, now, toolCallIdQueue, globalCallIndex, toolCallIdIndex,
               messages>>

\* what the request translation leaves alone
notRequest == <<responseVars, schemaVars, toolsVars, streamVars, extraVars>>

\* what the response translation leaves alone
notResponse == <<translateVars, schemaVars, toolsVars, streamVars, extraVars>>

\* what the schema pipeline leaves alone
notSchema == <<translateVars, responseVars, toolsVars, streamVars, extraVars>>

ResponseIdle ==
  /\ response = [choices |-> <<>>]
  /\ rpc = "idle"
  /\ geminiResponse = [candidates |-> <<>>]
  /\ wire = [candidates |-> <<>>]

SchemaIdle ==
  /\ schema = [obj |-> <<>>]
  /\ spc = "idle"
  /\ rewritten = [obj |-> <<>>]
  /\ validation = [valid |-> TRUE, errors |-> <<>>]
  /\ heap = <<>>
  /\ root = [null |-> TRUE]
  /\ rewrittenCell = [null |-> TRUE]
  /\ again = [obj |-> <<>>]

\* no stream under way
StreamIdle ==
  /\ upstream = <<>>
  /\ eventCount = 0
  /\ streaming = FALSE
  /\ sse = <<>>

\* no HTTP request under way
HandlerIdle ==
  /\ request = [body |-> [parses |-> FALSE], path |-> ""]
  /\ hpc = "idle"
  /\ backendError = <<>>

\* no cleanup under way
CleanupIdle ==
  /\ anthropicMessages = <<>>
  /\ cpc = "idle"
  /\ cleaned = <<>>
  /\ incomplete = FALSE
  /\ cleanedAgain = <<>>

\* no generationConfig under translation
FormatIdle ==
  /\ generationConfig = <<>>
  /\ fpc = "idle"
  /\ responseFormat = <<>>

\* a single request at a time
ConcurrentIdle ==
  /\ inflight = <<>>
  /\ finishReasons = <<>>

ExtraIdle ==
  /\ HandlerIdle
  /\ CleanupIdle
  /\ FormatIdle
  /\ lastFinishReason = Undefined
  /\ ConcurrentIdle

\* a payload without tools, before the handler has done anything
ToolsIdle ==
  /\ tools = <<>>
  /\ openAITools = <<>>
  /\ toolsValidation = [valid |-> TRUE, errors |-> <<>>]
  /\ thrown = <<>>
  /\ backendRequests = <<>>
  /\ reply = <<>>

RequestIdle ==
  /\ contents = <<>>
  /\ systemInstruction = <<>>
  /\ pc = "idle"
  /\ ci = 1
  /\ fi = 0
  /\ now = 0
  /\ toolCallIdQueue = <<>>
  /\ globalCallIndex = 0
  /\ toolCallIdIndex = 0
  /\ messages = <<>>

Init ==
  /\ ExtraIdle
  /\ contents \in Conversations
  /\ systemInstruction \in SystemInstructions
  /\ pc = "system"
  /\ ci = 1
  /\ fi = 0
  /\ now = 0
  /\ toolCallIdQueue = <<>>
  /\ globalCallIndex = 0
  /\ toolCallIdIndex = 0
  /\ messages = <<>>
  /\ ResponseIdle
  /\ SchemaIdle
  /\ ToolsIdle
  /\ StreamIdle

\* ------------------------------------------------------------------------
\* translateGeminiContentsToOpenAI
\* ------------------------------------------------------------------------
AddSystemInstruction ==
  /\ pc = "system"
  /\ messages' =
       IF Len(systemInstruction) > 0
          /\ extractTextFromParts(systemInstruction[1].parts) # ""
         THEN Append(messages,
                     [role |-> "system",
                      content |-> extractTextFromParts(systemInstruction[1].parts)])
       ELSE messages
  /\ pc' = "first"
  /\ UNCHANGED <<notRequest, input, ci, fi, now, toolCallIdQueue, globalCallIndex, toolCallIdIndex>>

\* first pass, a content without function calls
FirstPassSkip ==
  /\ pc = "first"
  /\ ci <= Len(contents)
  /\ Len(FunctionCallsOf(contents[ci])) = 0
  /\ ci' = ci + 1
  /\ UNCHANGED <<notRequest, input, pc, fi, now, toolCallIdQueue, globalCallIndex,
                 toolCallIdIndex, messages>>

\* first pass, one iteration of the inner loop: the id of one function call
FirstPassGenerateId ==
  /\ pc = "first"
  /\ ci <= Len(contents)
  /\ LET functionCalls == FunctionCallsOf(contents[ci])
     IN /\ fi < Len(functionCalls)
        /\ \E t \in now..MaxNow :
             /\ now' = t
             /\ toolCallIdQueue' =
                  Append(toolCallIdQueue,
                         GenerateId(functionCalls[fi + 1].functionCall.name, t,
                                    globalCallIndex))
        /\ globalCallIndex' = globalCallIndex + 1
        /\ IF fi + 1 = Len(functionCalls)
             THEN ci' = ci + 1 /\ fi' = 0
           ELSE ci' = ci /\ fi' = fi + 1
  /\ UNCHANGED <<notRequest, input, pc, toolCallIdIndex, messages>>

FirstPassDone ==
  /\ pc = "first"
  /\ ci > Len(contents)
  /\ pc' = "second"
  /\ ci' = 1
  /\ toolCallIdIndex' = 0
  /\ UNCHANGED <<notRequest, input, fi, now, toolCallIdQueue, globalCallIndex, messages>>

\* second pass, a content with function calls: one assistant message
SecondPassFunctionCalls ==
  /\ pc = "second"
  /\ ci <= Len(contents)
  /\ LET functionCalls == FunctionCallsOf(contents[ci])
     IN /\ Len(functionCalls) > 0
        /\ messages' =
             Append(messages,
                    [role |-> "assistant",
                     content |-> AssistantTextContent(contents[ci]),
                     tool_calls |-> ToolCallsOf(functionCalls, toolCallIdQueue,
                                                toolCallIdIndex)])
        /\ toolCallIdIndex' = toolCallIdIndex + Len(functionCalls)
  /\ ci' = ci + 1
  /\ UNCHANGED <<notRequest, input, pc, fi, now, toolCallIdQueue, globalCallIndex>>

\* second pass, a content with function responses and no function call
SecondPassFunctionResponses ==
  /\ pc = "second"
  /\ ci <= Len(contents)
  /\ Len(FunctionCallsOf(contents[ci])) = 0
  /\ LET functionResponses == FunctionResponsesOf(contents[ci])
     IN /\ Len(functionResponses) > 0
        /\ messages' =
             messages \o ToolMessagesOf(functionResponses, Len(functionResponses),
                                        {}, 0, toolCallIdQueue, toolCallIdIndex)
  /\ ci' = ci + 1
  /\ UNCHANGED <<notRequest, input, pc, fi, now, toolCallIdQueue, globalCallIndex, toolCallIdIndex>>

\* second pass, a regular content
SecondPassRegular ==
  /\ pc = "second"
  /\ ci <= Len(contents)
  /\ Len(FunctionCallsOf(contents[ci])) = 0
  /\ Len(FunctionResponsesOf(contents[ci])) = 0
  /\ messages' =
       Append(messages,
              [role |-> translateGeminiRoleToOpenAI(contents[ci]),
               content |-> translateGeminiPartsToOpenAI(contents[ci].parts)])
  /\ ci' = ci + 1
  /\ UNCHANGED <<notRequest, input, pc, fi, now, toolCallIdQueue, globalCallIndex, toolCallIdIndex>>

\* the loop ends; translateGeminiToOpenAI goes on to translate payload.tools, and
\* to validate them when there are any
SecondPassDone ==
  /\ pc = "second"
  /\ ci > Len(contents)
  /\ openAITools' = translateGeminiToolsToOpenAI(tools)
  /\ pc' = IF Len(openAITools') > 0 THEN "validate" ELSE "guard"
  /\ UNCHANGED <<extraVars, responseVars, schemaVars, toolsRest, streamVars, input, ci, fi, now,
                 toolCallIdQueue, globalCallIndex, toolCallIdIndex, messages>>

\* ------------------------------------------------------------------------
\* translateGeminiToOpenAI: the trailing tool-message guard and the return
\* ------------------------------------------------------------------------
AppendUserMessage ==
  /\ pc = "guard"
  /\ NeedsUserMessage(messages)
  /\ messages' = Append(messages, ContinueMessage)
  /\ pc' = "done"
  /\ UNCHANGED <<notRequest, input, ci, fi, now, toolCallIdQueue, globalCallIndex, toolCallIdIndex>>

ReturnPayload ==
  /\ pc = "guard"
  /\ ~NeedsUserMessage(messages)
  /\ pc' = "done"
  /\ UNCHANGED <<notRequest, input, ci, fi, now, toolCallIdQueue, globalCallIndex,
                 toolCallIdIndex, messages>>

Next ==
  \/ AddSystemInstruction
  \/ FirstPassSkip
  \/ FirstPassGenerateId
  \/ FirstPassDone
  \/ SecondPassFunctionCalls
  \/ SecondPassFunctionResponses
  \/ SecondPassRegular
  \/ SecondPassDone
  \/ AppendUserMessage
  \/ ReturnPayload

Spec == Init /\ [][Next]_vars

\* ------------------------------------------------------------------------
\* A request with tools: translateGeminiToOpenAI validates the translated
\* tools, and handleGenerateContent calls the backend or answers the error
\* ------------------------------------------------------------------------
ToolConversations ==
  { <<>>,
    <<[role |-> "user", parts |-> <<TextPart("Hi")>>]>>,
    <<[role |-> "user", parts |-> <<TextPart("Hi")>>],
      [role |-> "model", parts |-> <<FunctionCallPart("f")>>],
      [role |-> "user", parts |-> <<FunctionResponsePart(Undefined, "f")>>]>> }

InitTools ==
  /\ ExtraIdle
  /\ contents \in ToolConversations
  /\ systemInstruction = <<>>
  /\ pc = "system"
  /\ ci = 1
  /\ fi = 0
  /\ now = 0
  /\ toolCallIdQueue = <<>>
  /\ globalCallIndex = 0
  /\ toolCallIdIndex = 0
  /\ messages = <<>>
  /\ ResponseIdle
  /\ SchemaIdle
  /\ tools \in ToolLists
  /\ openAITools = <<>>
  /\ toolsValidation = [valid |-> TRUE, errors |-> <<>>]
  /\ thrown = <<>>
  /\ backendRequests = <<>>
  /\ reply = <<>>
  /\ StreamIdle

\* if (!validation.valid)
ValidationFails(result) == ~result.valid

\* the tools pass: translateGeminiToOpenAI goes on to the trailing guard
ValidateToolsPass ==
  /\ pc = "validate"
  /\ toolsValidation' = validateToolsForStrictMode(openAITools[1])
  /\ ~ValidationFails(toolsValidation')
  /\ pc' = "guard"
  /\ UNCHANGED <<extraVars, afterLoops, responseVars, schemaVars, streamVars, tools, openAITools, thrown,
                 backendRequests, reply>>

\* the tools fail: translateGeminiToOpenAI throws the formatted report
ValidateToolsThrow ==
  /\ pc = "validate"
  /\ toolsValidation' = validateToolsForStrictMode(openAITools[1])
  /\ ValidationFails(toolsValidation')
  /\ thrown' = <<ToolSchemaErrorMessage(toolsValidation'.errors)>>
  /\ pc' = "thrown"
  /\ UNCHANGED <<extraVars, afterLoops, responseVars, schemaVars, streamVars, tools, openAITools,
                 backendRequests, reply>>

\* handleGenerateContent: the payload translateGeminiToOpenAI returned goes to
\* createChatCompletions
CallBackend ==
  /\ pc = "done"
  /\ backendRequests' =
       Append(backendRequests, [messages |-> messages, tools |-> openAITools])
  /\ pc' = "called"
  /\ UNCHANGED <<extraVars, afterLoops, responseVars, schemaVars, streamVars, tools, openAITools,
                 toolsValidation, thrown, reply>>

\* handleGenerateContent: the catch block answers 500 with the error's message
ReplyError ==
  /\ pc = "thrown"
  /\ reply' = <<[status |-> 500, error |-> [message |-> thrown[1], code |-> 500]]>>
  /\ pc' = "failed"
  /\ UNCHANGED <<extraVars, afterLoops, responseVars, schemaVars, streamVars, tools, openAITools,
                 toolsValidation, thrown, backendRequests>>

NextTools ==
  \/ Next
  \/ ValidateToolsPass
  \/ ValidateToolsThrow
  \/ CallBackend
  \/ ReplyError

SpecTools == InitTools /\ [][NextTools]_vars

\* ------------------------------------------------------------------------
\* Response translation: OpenAI -> Gemini
\* ------------------------------------------------------------------------
Get(rec, key) == IF key \in DOMAIN rec THEN rec[key] ELSE Undefined

\* JSON.parse of an arguments string: the object, or a SyntaxError
JSONParse(str) ==
  IF str = "{}" THEN [ok |-> TRUE, value |-> <<>>]
  ELSE IF str = "{\"p\":\"v\"}" THEN [ok |-> TRUE, value |-> << <<"p", "v">> >>]
  ELSE [ok |-> FALSE, value |-> <<>>]

translateOpenAIFinishReasonToGemini_NoToolCalls(finishReason) ==
  CASE finishReason = "stop" -> "STOP"
    [] finishReason = "length" -> "MAX_TOKENS"
    [] finishReason = "content_filter" -> "SAFETY"
    [] finishReason = Null -> Undefined
    [] finishReason = Undefined -> Undefined
    [] OTHER -> "OTHER"

translateOpenAIFinishReasonToGemini(finishReason) ==
  CASE finishReason = "stop" -> "STOP"
    [] finishReason = "length" -> "MAX_TOKENS"
    [] finishReason = "content_filter" -> "SAFETY"
    [] finishReason = "tool_calls" -> "STOP"
    [] finishReason = Null -> Undefined
    [] finishReason = Undefined -> Undefined
    [] OTHER -> "OTHER"

TextPartsOf(content) == IF Truthy(content) THEN <<TextPart(content)>> ELSE <<>>

ToolCallsIn(rec) == IF "tool_calls" \in DOMAIN rec THEN rec.tool_calls ELSE <<>>

ChoiceThrows_Never(choice) == FALSE

\* translateChoiceToCandidate: JSON.parse of a tool call's arguments may throw
ChoiceThrows(choice) ==
  \E k \in 1..Len(ToolCallsIn(choice.message)) :
    ~JSONParse(choice.message.tool_calls[k].function.arguments).ok

translateChoiceToCandidate(choice) ==
  LET toolCalls == ToolCallsIn(choice.message)
  IN [content |->
        [role |-> "model",
         parts |-> TextPartsOf(choice.message.content)
                   \o [k \in 1..Len(toolCalls) |->
                         [functionCall |->
                            [name |-> toolCalls[k].function.name,
                             args |-> JSONParse(toolCalls[k].function.arguments).value]]]],
      finishReason |-> translateOpenAIFinishReasonToGemini(Get(choice, "finish_reason"))]

\* a stream fragment is surfaced only when it carries a function name
NamedFragments(delta) ==
  LET IsNamed(tc) == "function" \in DOMAIN tc /\ Truthy(Get(tc.function, "name"))
  IN SelectSeq(ToolCallsIn(delta), IsNamed)

FragmentArgs_Empty(tc) == [ok |-> TRUE, value |-> <<>>]

\* toolCall.function.arguments ? JSON.parse(toolCall.function.arguments) : {}
FragmentArgs(tc) ==
  IF Truthy(Get(tc.function, "arguments")) THEN JSONParse(tc.function.arguments)
  ELSE [ok |-> TRUE, value |-> <<>>]

ChunkThrows(chunk) ==
  /\ Len(chunk.choices) > 0
  /\ \E k \in 1..Len(NamedFragments(chunk.choices[1].delta)) :
       ~FragmentArgs(NamedFragments(chunk.choices[1].delta)[k]).ok

\* usage counters; an optional value is a sequence of length 0 or 1
UsageMetadataOf(usage) ==
  [promptTokenCount |-> usage.prompt_tokens,
   candidatesTokenCount |-> usage.completion_tokens,
   totalTokenCount |-> usage.total_tokens,
   cachedContentTokenCount |->
     IF "prompt_tokens_details" \in DOMAIN usage
       THEN <<usage.prompt_tokens_details.cached_tokens>>
     ELSE <<>>]

ZeroUsageMetadata ==
  [promptTokenCount |-> 0, candidatesTokenCount |-> 0, totalTokenCount |-> 0,
   cachedContentTokenCount |-> <<>>]

translateChunkToGemini(chunk) ==
  IF Len(chunk.choices) = 0
    THEN [candidates |-> <<>>, usageMetadata |-> <<ZeroUsageMetadata>>]
  ELSE LET choice == chunk.choices[1]
           named == NamedFragments(choice.delta)
       IN [candidates |->
             <<[content |->
                  [role |-> "model",
                   parts |-> TextPartsOf(Get(choice.delta, "content"))
                             \o [k \in 1..Len(named) |->
                                   [functionCall |->
                                      [name |-> named[k].function.name,
                                       args |-> FragmentArgs(named[k]).value]]]],
                finishReason |->
                  translateOpenAIFinishReasonToGemini(Get(choice, "finish_reason"))]>>,
           usageMetadata |->
             IF "usage" \in DOMAIN chunk THEN <<UsageMetadataOf(chunk.usage)>>
             ELSE <<>>]

translateCompleteToGemini(completeResponse) ==
  [candidates |-> [k \in 1..Len(completeResponse.choices) |->
                     translateChoiceToCandidate(completeResponse.choices[k])],
   usageMetadata |->
     IF "usage" \in DOMAIN completeResponse
       THEN <<UsageMetadataOf(completeResponse.usage)>>
     ELSE <<ZeroUsageMetadata>>]

\* the two tests translateOpenAIToGemini makes before it takes a response as complete
IsChunk(resp) ==
  IF Get(resp, "object") = "chat.completion.chunk" THEN TRUE
  ELSE Len(resp.choices) > 0 /\ "delta" \in DOMAIN resp.choices[1]

\* JSON.stringify leaves out the keys whose value is undefined
StringifyCandidate(candidate) ==
  IF candidate.finishReason = Undefined THEN [content |-> candidate.content]
  ELSE candidate

StringifyUsage(usage) ==
  IF Len(usage.cachedContentTokenCount) = 0
    THEN [promptTokenCount |-> usage.promptTokenCount,
          candidatesTokenCount |-> usage.candidatesTokenCount,
          totalTokenCount |-> usage.totalTokenCount]
  ELSE [promptTokenCount |-> usage.promptTokenCount,
        candidatesTokenCount |-> usage.candidatesTokenCount,
        totalTokenCount |-> usage.totalTokenCount,
        cachedContentTokenCount |-> usage.cachedContentTokenCount[1]]

StringifyResponse(gr) ==
  LET cands == [k \in 1..Len(gr.candidates) |-> StringifyCandidate(gr.candidates[k])]
  IN IF Len(gr.usageMetadata) = 0 THEN [candidates |-> cands]
     ELSE [candidates |-> cands, usageMetadata |-> StringifyUsage(gr.usageMetadata[1])]

\* backend responses
FinishReasons == {"stop", "length", "content_filter", "tool_calls", "function_call", Null}

GoodToolCall ==
  [id |-> "call_1", type |-> "function",
   function |-> [name |-> "f", arguments |-> "{\"p\":\"v\"}"]]
BadToolCall ==
  [id |-> "call_2", type |-> "function",
   function |-> [name |-> "f_0", arguments |-> "{\"p\":"]]

ResponseMessages ==
  { [role |-> "assistant", content |-> "Hi"],
    [role |-> "assistant", content |-> Null, tool_calls |-> <<GoodToolCall>>],
    [role |-> "assistant", content |-> "Hi", tool_calls |-> <<GoodToolCall, BadToolCall>>] }

Deltas ==
  { [role |-> "assistant"],
    [content |-> "Hi"],
    [tool_calls |-> <<[index |-> 0, function |-> [name |-> "f"]]>>],
    [tool_calls |-> <<[index |-> 0, function |-> [arguments |-> "\"v\"}"]]>>],
    [content |-> "Hi",
     tool_calls |-> <<[index |-> 0, function |-> [name |-> "f", arguments |-> "{\"p\":"]]>>] }

WithFinishReason(base) ==
  {base} \cup {base @@ [finish_reason |-> fr] : fr \in FinishReasons}

MessageChoices == UNION {WithFinishReason([message |-> m]) : m \in ResponseMessages}
DeltaChoices == UNION {WithFinishReason([delta |-> d]) : d \in Deltas}

ChoiceLists(choices) == UNION {[1..n -> choices] : n \in 0..MaxChoices}

Usage == [prompt_tokens |-> 3, completion_tokens |-> 2, total_tokens |-> 5,
          prompt_tokens_details |-> [cached_tokens |-> 1]]

WithUsage(base) == {base, base @@ [usage |-> Usage]}

\* the object field a response carries; a chunk may come without one
ResponseKinds == {"chat.completion", "chat.completion.chunk", Undefined}

ResponseBase(kind, cs) ==
  IF kind = Undefined THEN [choices |-> cs] ELSE [object |-> kind, choices |-> cs]

InitResponse ==
  /\ ExtraIdle
  /\ RequestIdle
  /\ SchemaIdle
  /\ ToolsIdle
  /\ StreamIdle
  /\ \E kind \in ResponseKinds :
       \E cs \in ChoiceLists(IF kind = "chat.completion" THEN MessageChoices
                             ELSE DeltaChoices) :
         /\ kind = Undefined => cs # <<>>
         /\ response \in WithUsage(ResponseBase(kind, cs))
  /\ rpc = "received"
  /\ geminiResponse = [candidates |-> <<>>]
  /\ wire = [candidates |-> <<>>]

\* translateOpenAIToGemini on a stream chunk
TranslateChunk ==
  /\ rpc = "received"
  /\ IsChunk(response)
  /\ ~ChunkThrows(response)
  /\ geminiResponse' = translateChunkToGemini(response)
  /\ rpc' = "translated"
  /\ UNCHANGED <<notResponse, response, wire>>

\* translateOpenAIToGemini on a complete response
TranslateComplete ==
  /\ rpc = "received"
  /\ ~IsChunk(response)
  /\ \A k \in 1..Len(response.choices) : ~ChoiceThrows(response.choices[k])
  /\ geminiResponse' = translateCompleteToGemini(response)
  /\ rpc' = "translated"
  /\ UNCHANGED <<notResponse, response, wire>>

\* JSON.parse of a tool call's arguments throws: nothing is returned
TranslateThrows ==
  /\ rpc = "received"
  /\ IF IsChunk(response) THEN ChunkThrows(response)
     ELSE \E k \in 1..Len(response.choices) : ChoiceThrows(response.choices[k])
  /\ rpc' = "threw"
  /\ UNCHANGED <<notResponse, response, geminiResponse, wire>>

\* the handler serialises what the translator returned
SendResponse ==
  /\ rpc = "translated"
  /\ wire' = StringifyResponse(geminiResponse)
  /\ rpc' = "sent"
  /\ UNCHANGED <<notResponse, response, geminiResponse>>

NextResponse ==
  \/ TranslateChunk
  \/ TranslateComplete
  \/ TranslateThrows
  \/ SendResponse

SpecResponse == InitResponse /\ [][NextResponse]_vars

\* ------------------------------------------------------------------------
\* Streaming: handleGenerateContent relays the events of the backend's stream
\* ------------------------------------------------------------------------
\* translateOpenAIToGemini: a chunk or a complete response
translateOpenAIToGemini(resp) ==
  IF IsChunk(resp) THEN translateChunkToGemini(resp) ELSE translateCompleteToGemini(resp)

\* JSON.parse of a tool call's arguments throws inside the translation
TranslationThrows(resp) ==
  IF IsChunk(resp) THEN ChunkThrows(resp)
  ELSE \E k \in 1..Len(resp.choices) : ChoiceThrows(resp.choices[k])

StreamChunk(choice) == [object |-> "chat.completion.chunk", choices |-> <<choice>>]

\* the data of the well-formed events, and the chunk JSON.parse makes of each
ChunkTexts ==
  << [data |-> "{\"object\":\"chat.completion.chunk\",\"choices\":[{\"delta\":"
               \o "{\"content\":\"Hi\"}}]}",
      chunk |-> StreamChunk([delta |-> [content |-> "Hi"]])],
     [data |-> "{\"object\":\"chat.completion.chunk\",\"choices\":[{\"delta\":"
               \o "{\"role\":\"assistant\"},\"finish_reason\":null}]}",
      chunk |-> StreamChunk([delta |-> [role |-> "assistant"], finish_reason |-> Null])],
     [data |-> "{\"object\":\"chat.completion.chunk\",\"choices\":[{\"delta\":"
               \o "{\"role\":\"assistant\"},\"finish_reason\":\"stop\"}]}",
      chunk |-> StreamChunk([delta |-> [role |-> "assistant"], finish_reason |-> "stop"])],
     [data |-> "{\"object\":\"chat.completion.chunk\",\"choices\":[{\"delta\":"
               \o "{\"tool_calls\":[{\"index\":0,\"function\":{\"name\":\"f\"}},"
               \o "{\"index\":0,\"function\":{\"arguments\":\"{}\"}}]}}]}",
      chunk |-> StreamChunk([delta |->
                   [tool_calls |->
                      <<[index |-> 0, function |-> [name |-> "f"]],
                        [index |-> 0, function |-> [arguments |-> "{}"]]>>]])],
     [data |-> "{\"object\":\"chat.completion.chunk\",\"choices\":[{\"delta\":"
               \o "{\"tool_calls\":[{\"index\":0,\"function\":{\"arguments\":"
               \o "\"{\\\"p\\\":\\\"v\\\"}\"}}]}}]}",
      chunk |-> StreamChunk([delta |->
                   [tool_calls |->
                      <<[index |-> 0, function |-> [arguments |-> "{\"p\":\"v\"}"]]>>]])],
     [data |-> "{\"object\":\"chat.completion.chunk\",\"choices\":[{\"delta\":"
               \o "{\"tool_calls\":[{\"index\":1,\"function\":{\"name\":\"f_0\","
               \o "\"arguments\":\"{\\\"p\\\":\\\"v\\\"}\"}}]}}]}",
      chunk |-> StreamChunk([delta |->
                   [tool_calls |->
                      <<[index |-> 1,
                         function |-> [name |-> "f_0",
                                       arguments |-> "{\"p\":\"v\"}"]]>>]])],
     [data |-> "{\"object\":\"chat.completion.chunk\",\"choices\":[{\"delta\":"
               \o "{\"tool_calls\":[{\"index\":0,\"function\":{\"name\":\"f\","
               \o "\"arguments\":\"{\\\"p\\\":\"}}]}}]}",
      chunk |-> StreamChunk([delta |->
                   [tool_calls |->
                      <<[index |-> 0,
                         function |-> [name |-> "f", arguments |-> "{\"p\":"]]>>]])] >>

\* JSON.parse(rawEvent.data): the chunk, or a SyntaxError
ParseEvent_Lenient(data) ==
  [ok |-> TRUE,
   value |-> IF \E i \in 1..Len(ChunkTexts) : ChunkTexts[i].data = data
               THEN ChunkTexts[CHOOSE i \in 1..Len(ChunkTexts) :
                                 ChunkTexts[i].data = data].chunk
             ELSE [choices |-> <<>>]]

ParseEvent(data) ==
  IF \E i \in 1..Len(ChunkTexts) : ChunkTexts[i].data = data
    THEN [ok |-> TRUE,
          value |-> ChunkTexts[CHOOSE i \in 1..Len(ChunkTexts) :
                                 ChunkTexts[i].data = data].chunk]
  ELSE [ok |-> FALSE, value |-> [choices |-> <<>>]]

\* what the backend's stream may yield
RawEvents ==
  { [data |-> ChunkTexts[i].data] : i \in 1..Len(ChunkTexts) }
  \cup { [data |-> "[DONE]"], [data |-> ""], [event |-> "ping"],
         [data |-> "{\"choices\":"] }

EventStreams == UNION { [1..n -> RawEvents] : n \in 0..MaxEvents }

InitStream ==
  /\ ExtraIdle
  /\ RequestIdle
  /\ ResponseIdle
  /\ SchemaIdle
  /\ ToolsIdle
  /\ upstream \in EventStreams
  /\ eventCount = 0
  /\ streaming = TRUE
  /\ sse = <<>>

notStream == <<translateVars, responseVars, schemaVars, toolsVars, extraVars>>

\* the event the loop receives next
RawEvent == upstream[eventCount + 1]

IsDone_Never(rawEvent) == FALSE

\* rawEvent.data === "[DONE]"
IsDone(rawEvent) == Get(rawEvent, "data") = "[DONE]"

\* the event passes the two tests at the top of the loop body
HasPayload(rawEvent) == ~IsDone(rawEvent) /\ Truthy(Get(rawEvent, "data"))

WriteSSE_Front(stream, message) == <<message>> \o stream

\* stream.writeSSE(message)
WriteSSE(stream, message) == Append(stream, message)

\* the backend's stream is exhausted
StreamEnds ==
  /\ streaming
  /\ eventCount = Len(upstream)
  /\ streaming' = FALSE
  /\ UNCHANGED <<notStream, upstream, eventCount, sse>>

\* if (rawEvent.data === "[DONE]") break
StreamDone ==
  /\ streaming
  /\ eventCount < Len(upstream)
  /\ IsDone(RawEvent)
  /\ eventCount' = eventCount + 1
  /\ streaming' = FALSE
  /\ UNCHANGED <<notStream, upstream, sse>>

\* if (!rawEvent.data) continue
StreamSkip ==
  /\ streaming
  /\ eventCount < Len(upstream)
  /\ ~IsDone(RawEvent)
  /\ ~Truthy(Get(RawEvent, "data"))
  /\ eventCount' = eventCount + 1
  /\ UNCHANGED <<notStream, upstream, streaming, sse>>

\* the try block runs through: the chunk is parsed, translated and written; the
\* log line names the event the written chunk stands for
StreamSend ==
  /\ streaming
  /\ eventCount < Len(upstream)
  /\ HasPayload(RawEvent)
  /\ ParseEvent(RawEvent.data).ok
  /\ ~TranslationThrows(ParseEvent(RawEvent.data).value)
  /\ sse' = WriteSSE(sse,
                     [data |-> StringifyResponse(
                                 translateOpenAIToGemini(ParseEvent(RawEvent.data).value)),
                      event |-> eventCount + 1])
  /\ eventCount' = eventCount + 1
  /\ UNCHANGED <<notStream, upstream, streaming>>

\* JSON.parse or the translation throws: the catch block logs, the loop goes on
StreamCatch ==
  /\ streaming
  /\ eventCount < Len(upstream)
  /\ HasPayload(RawEvent)
  /\ \/ ~ParseEvent(RawEvent.data).ok
     \/ TranslationThrows(ParseEvent(RawEvent.data).value)
  /\ eventCount' = eventCount + 1
  /\ UNCHANGED <<notStream, upstream, streaming, sse>>

NextStream ==
  \/ StreamEnds
  \/ StreamDone
  \/ StreamSkip
  \/ StreamSend
  \/ StreamCatch

SpecStream == InitStream /\ [][NextStream]_vars

InitSchema ==
  /\ ExtraIdle
  /\ RequestIdle
  /\ ResponseIdle
  /\ ToolsIdle
  /\ StreamIdle
  /\ schema \in Schemas(MaxDepth)
  /\ spc = "start"
  /\ rewritten = JObj(<<>>)
  /\ validation = [valid |-> TRUE, errors |-> <<>>]
  /\ heap = Alloc(<<>>, schema).h
  /\ root = Alloc(<<>>, schema).cell
  /\ rewrittenCell = JNull
  /\ again = JObj(<<>>)

\* translateGeminiToolsToOpenAI / translateGeminiResponseFormatToOpenAI hand the
\* schema to the rewriter
RewriteSchema ==
  /\ spc = "start"
  /\ rewritten' = addAdditionalPropertiesFalse(schema)
  /\ heap' = RewriteNode(heap, root.ref).h
  /\ rewrittenCell' = RewriteNode(heap, root.ref).cell
  /\ spc' = "rewritten"
  /\ UNCHANGED <<notSchema, schema, validation, root, again>>

\* the rewritten schema goes through the strict-mode validator, which only reads
ValidateSchema ==
  /\ spc = "rewritten"
  /\ validation' = validateSchemaForStrictMode(rewritten, "root")
  /\ spc' = "validated"
  /\ UNCHANGED <<notSchema, schema, rewritten, heap, root, rewrittenCell, again>>

\* the rewriter applied to its own result
RewriteAgain ==
  /\ spc = "validated"
  /\ again' = addAdditionalPropertiesFalse(rewritten)
  /\ heap' = RewriteNode(heap, rewrittenCell.ref).h
  /\ spc' = "again"
  /\ UNCHANGED <<notSchema, schema, rewritten, validation, root, rewrittenCell>>

NextSchema ==
  \/ RewriteSchema
  \/ ValidateSchema
  \/ RewriteAgain

SpecSchema == InitSchema /\ [][NextSchema]_vars

\* ------------------------------------------------------------------------
\* The exported validators, called with a schema or a tool list of the
\* caller's own
\* ------------------------------------------------------------------------
FunctionTool(type, fields) == JObj([type |-> JStr(type), function |-> JObj(fields)])

OpenAITools ==
  { \* compliant
    FunctionTool("function",
                 [name |-> JStr("f"), parameters |-> MinimalSchema, strict |-> JBool(TRUE)]),
    \* no name and a non-compliant schema
    FunctionTool("function",
                 [parameters |-> JObj([type |-> JStr("object")]), strict |-> JBool(TRUE)]),
    \* a non-compliant schema outside strict mode
    FunctionTool("function",
                 [name |-> JStr("f"), parameters |-> JObj([type |-> JStr("array")]),
                  strict |-> JBool(FALSE)]),
    FunctionTool("function",
                 [name |-> JStr("f"), parameters |-> JObj([type |-> JStr("array")])]),
    \* a wrong type: alone, with a missing name, with a non-compliant schema
    FunctionTool("invalid",
                 [name |-> JStr("f"), parameters |-> MinimalSchema, strict |-> JBool(TRUE)]),
    FunctionTool("invalid", [parameters |-> MinimalSchema, strict |-> JBool(TRUE)]),
    FunctionTool("invalid",
                 [name |-> JStr("f"), parameters |-> JObj([type |-> JStr("array")]),
                  strict |-> JBool(TRUE)]) }

OpenAIToolLists == UNION { [1..n -> OpenAITools] : n \in 0..MaxTools }

InitValidator ==
  /\ ExtraIdle
  /\ RequestIdle
  /\ ResponseIdle
  /\ rewritten = JObj(<<>>)
  /\ validation = [valid |-> TRUE, errors |-> <<>>]
  /\ rewrittenCell = JNull
  /\ again = JObj(<<>>)
  /\ tools = <<>>
  /\ toolsValidation = [valid |-> TRUE, errors |-> <<>>]
  /\ thrown = <<>>
  /\ backendRequests = <<>>
  /\ reply = <<>>
  /\ StreamIdle
  /\ \/ /\ spc = "schema"
        /\ schema \in Schemas(MaxDepth)
        /\ heap = Alloc(<<>>, schema).h
        /\ root = Alloc(<<>>, schema).cell
        /\ openAITools = <<>>
     \/ /\ spc = "tools"
        /\ schema = JObj(<<>>)
        /\ heap = <<>>
        /\ root = JNull
        /\ \E list \in OpenAIToolLists : openAITools = <<list>>

\* validateSchemaForStrictMode(schema): the path defaults to "root"; the
\* function reads the schema and writes only its own errors array
ValidateSchemaInput ==
  /\ spc = "schema"
  /\ validation' = validateSchemaForStrictMode(schema, "root")
  /\ spc' = "schemaChecked"
  /\ UNCHANGED <<notSchema, schema, rewritten, heap, root, rewrittenCell, again>>

\* validateToolsForStrictMode(tools)
ValidateToolsInput ==
  /\ spc = "tools"
  /\ toolsValidation' = validateToolsForStrictMode(openAITools[1])
  /\ spc' = "toolsChecked"
  /\ UNCHANGED <<extraVars, translateVars, responseVars, streamVars, schema, rewritten, validation,
                 heap, root, rewrittenCell, again, tools, openAITools, thrown,
                 backendRequests, reply>>

NextValidator ==
  \/ ValidateSchemaInput
  \/ ValidateToolsInput

SpecValidator == InitValidator /\ [][NextValidator]_vars

\* ------------------------------------------------------------------------
\* Vocabulary of the properties
\* ------------------------------------------------------------------------
IsCallContent(content) == Len(FunctionCallsOf(content)) > 0
IsResponseContent(content) ==
  Len(FunctionCallsOf(content)) = 0 /\ Len(FunctionResponsesOf(content)) > 0

\* the function calls of the conversation, top to bottom and left to right
InboundCalls(cs) ==
  Flatten([j \in 1..Len(cs) |->
             LET fcs == FunctionCallsOf(cs[j])
             IN [k \in 1..Len(fcs) |-> [name |-> fcs[k].functionCall.name, at |-> j]]])

\* the function responses of the response turns, in the same order
InboundResponses(cs) ==
  Flatten([j \in 1..Len(cs) |->
             IF IsResponseContent(cs[j])
               THEN LET frs == FunctionResponsesOf(cs[j])
                    IN [k \in 1..Len(frs) |->
                          [id |-> frs[k].functionResponse.id,
                           name |-> frs[k].functionResponse.name, at |-> j]]
             ELSE <<>>])

HasToolCalls(m) == "tool_calls" \in DOMAIN m
IsToolMessage(m) == m.role = "tool"

\* the tool_calls of the outbound messages, in order
OutboundToolCalls(msgs) ==
  Flatten([i \in 1..Len(msgs) |-> IF HasToolCalls(msgs[i]) THEN msgs[i].tool_calls
                                  ELSE <<>>])

OutboundToolMessages(msgs) == SelectSeq(msgs, IsToolMessage)

Prefix(msgs, i) == SubSeq(msgs, 1, i)

PairwiseDistinct(ids) == \A j, k \in 1..Len(ids) : j # k => ids[j] # ids[k]

IdsOf(calls) == [k \in 1..Len(calls) |-> calls[k].id]

\* contents the second pass has gone through
Translated ==
  IF pc \in {"system", "first"} THEN 0
  ELSE IF pc = "second" THEN ci - 1
  ELSE Len(contents)

\* response parts of one turn that are not repeats of an id seen in that turn
KeptResponses(content) ==
  LET frs == FunctionResponsesOf(content)
      carried == {frs[k].functionResponse.id : k \in 1..Len(frs)}
  IN Cardinality({id \in carried : Truthy(id)})
     + Cardinality({k \in 1..Len(frs) : ~Truthy(frs[k].functionResponse.id)})

RECURSIVE SumKept(_, _)
SumKept(cs, n) ==
  IF n = 0 THEN 0
  ELSE SumKept(cs, n - 1) + (IF IsResponseContent(cs[n]) THEN KeptResponses(cs[n]) ELSE 0)

\* every call is answered, in call order, by its own function response
AnsweredInCallOrder(cs) ==
  LET calls == InboundCalls(cs)
      resps == InboundResponses(cs)
  IN /\ Len(calls) = Len(resps)
     /\ \A k \in 1..Len(calls) :
          /\ resps[k].at > calls[k].at
          /\ resps[k].name = calls[k].name
     /\ \A j, k \in 1..Len(resps) :
          j # k /\ Truthy(resps[j].id) => resps[j].id # resps[k].id

\* ------------------------------------------------------------------------
\* Properties
\* ------------------------------------------------------------------------

\* C1: when the conversation holds N function calls, each answered in call
\* order by its function response, the returned messages hold N tool_calls with
\* N pairwise distinct ids and N tool messages, and the k-th tool message
\* carries the id of the k-th tool_call.
C1_CallResultCorrelation ==
  (pc = "done" /\ AnsweredInCallOrder(contents)) =>
    LET calls == OutboundToolCalls(messages)
        toolMessages == OutboundToolMessages(messages)
        n == Len(InboundCalls(contents))
    IN /\ Len(calls) = n
       /\ Len(toolMessages) = n
       /\ PairwiseDistinct(IdsOf(calls))
       /\ \A k \in 1..n : toolMessages[k].tool_call_id = calls[k].id

\* C2: a function response that arrives when no emitted tool_call is still
\* unanswered produces no tool message, and every tool message that is
\* produced carries the id of a tool_call emitted before it.
C2_OrphanSuppression ==
  \A i \in 1..Len(messages) :
    IsToolMessage(messages[i]) =>
      LET calls == OutboundToolCalls(Prefix(messages, i))
          k == Len(OutboundToolMessages(Prefix(messages, i)))
      IN /\ k <= Len(calls)
         /\ \E c \in 1..Len(calls) : calls[c].id = messages[i].tool_call_id

C4_StrictFifo ==
  \A i \in 1..Len(messages) :
    IsToolMessage(messages[i]) =>
      LET calls == OutboundToolCalls(Prefix(messages, i))
          k == Len(OutboundToolMessages(Prefix(messages, i)))
      IN k <= Len(calls) => messages[i].tool_call_id = calls[k].id

\* C5: the step that ends translateGeminiToOpenAI appends exactly the user
\* message "Please continue with the next step." when the last message has
\* role tool and appends nothing otherwise, so that no returned payload ends
\* with a tool message.
C5_TrailingRoleGuard ==
  [][pc = "guard" =>
       /\ IF Len(messages) > 0 /\ Last(messages).role = "tool"
            THEN /\ Len(messages') = Len(messages) + 1
                 /\ Prefix(messages', Len(messages)) = messages
                 /\ Last(messages').role = "user"
                 /\ Last(messages').content = "Please continue with the next step."
          ELSE messages' = messages
       /\ pc' = "done"
       /\ Len(messages') > 0 => Last(messages').role # "tool"]_vars

C5_Witness ==
  /\ pc = "done"
  /\ Len(messages) >= 2
  /\ messages[Len(messages) - 1].role = "tool"
  /\ Last(messages) = ContinueMessage

\* C6: the generated tool_call ids are pairwise distinct at every step; in the
\* returned payload the k-th id is the one generated for the k-th function
\* call met scanning the turns top to bottom and the parts left to right, and
\* the tool_calls carry the ids in that order.
C6_UniqueOrderedIds ==
  /\ PairwiseDistinct(toolCallIdQueue)
  /\ pc = "done" =>
       LET calls == InboundCalls(contents)
           out == OutboundToolCalls(messages)
       IN /\ Len(toolCallIdQueue) = Len(calls)
          /\ Len(out) = Len(calls)
          /\ \A k \in 1..Len(calls) :
               /\ \E t \in 0..MaxNow :
                    toolCallIdQueue[k] =
                      "call_" \o calls[k].name \o "_" \o ToString(t)
                      \o "_" \o ToString(k - 1)
               /\ out[k].id = toolCallIdQueue[k]

C6_Witness ==
  /\ pc = "done"
  /\ now = 0
  /\ Len(OutboundToolCalls(messages)) >= 3
  /\ \E j, k \in 1..Len(InboundCalls(contents)) :
       /\ j # k
       /\ InboundCalls(contents)[j].name = InboundCalls(contents)[k].name
       /\ InboundCalls(contents)[j].at # InboundCalls(contents)[k].at

\* C7: every tool message carries a name field equal to the function name of
\* the tool_call whose id it carries, and no tool_call record has a name field
\* beside its function object.
C7_ToolMessageName ==
  /\ \A i \in 1..Len(messages) :
       IsToolMessage(messages[i]) =>
         /\ "name" \in DOMAIN messages[i]
         /\ \E c \in 1..Len(OutboundToolCalls(messages)) :
              /\ OutboundToolCalls(messages)[c].id = messages[i].tool_call_id
              /\ OutboundToolCalls(messages)[c].function.name = messages[i].name
  /\ \A c \in 1..Len(OutboundToolCalls(messages)) :
       "name" \notin DOMAIN OutboundToolCalls(messages)[c]

\* the choice a candidate is translated from: every candidate of a chunk comes
\* from its first choice, the k-th candidate of a complete response from its
\* k-th choice
SourceChoice(resp, k) == IF IsChunk(resp) THEN resp.choices[1] ELSE resp.choices[k]

FinishReasonTable(finishReason) ==
  IF finishReason \in {"stop", "tool_calls"} THEN "STOP"
  ELSE IF finishReason = "length" THEN "MAX_TOKENS"
  ELSE IF finishReason = "content_filter" THEN "SAFETY"
  ELSE "OTHER"

\* C8: for a complete response and for a stream chunk alike, stop gives STOP,
\* length MAX_TOKENS, content_filter SAFETY, tool_calls STOP and any other
\* value OTHER, while a null or absent finish_reason leaves the candidate
\* without a finishReason on the wire.
C8_FinishReasonTable ==
  /\ rpc \in {"translated", "sent"} =>
       \A k \in 1..Len(geminiResponse.candidates) :
         LET fr == Get(SourceChoice(response, k), "finish_reason")
             out == geminiResponse.candidates[k].finishReason
         IN IF fr \in {Null, Undefined} THEN out \notin {Null, "OTHER"} /\ out = Undefined
            ELSE out = FinishReasonTable(fr)
  /\ rpc = "sent" =>
       /\ Len(wire.candidates) = Len(geminiResponse.candidates)
       /\ \A k \in 1..Len(wire.candidates) :
            LET fr == Get(SourceChoice(response, k), "finish_reason")
            IN IF fr \in {Null, Undefined}
                 THEN "finishReason" \notin DOMAIN wire.candidates[k]
               ELSE /\ "finishReason" \in DOMAIN wire.candidates[k]
                    /\ wire.candidates[k].finishReason = FinishReasonTable(fr)

C8_Witness ==
  /\ rpc = "sent"
  /\ ~IsChunk(response)
  /\ Len(response.choices) = 2
  /\ Get(response.choices[1], "finish_reason") = "tool_calls"
  /\ Get(response.choices[2], "finish_reason") = Null
  /\ wire.candidates[1].finishReason = "STOP"
  /\ "finishReason" \notin DOMAIN wire.candidates[2]

\* ------------------------------------------------------------------------
\* Properties of the schema rewriter and validator
\* ------------------------------------------------------------------------
TypeOf(fields) == IF "type" \in DOMAIN fields THEN fields["type"] ELSE JNull

\* no node of the tree keeps its properties in an array
RECURSIVE PlainProperties(_)
PlainProperties(v) ==
  IF IsObj(v)
    THEN /\ "properties" \in DOMAIN v.obj => ~IsArr(v.obj["properties"])
         /\ \A key \in DOMAIN v.obj : PlainProperties(v.obj[key])
  ELSE IF IsArr(v) THEN \A i \in 1..Len(v.arr) : PlainProperties(v.arr[i])
  ELSE TRUE

OnlyAdditionalPropertiesErrors(errors) ==
  \A i \in 1..Len(errors) : errors[i].message = MsgAdditionalProperties

\* C9 as stated: the rewritten schema passes the strict-mode validator,
\* whatever the schema was.
C9_ValidatorSoundness == spc = "validated" => validation.valid

\* C9: when the schema keeps its properties in objects and the validator finds
\* nothing wrong with it except missing additionalProperties: false, the
\* rewritten schema passes the strict-mode validator.
C9_SoundUpToOtherRules ==
  ( /\ spc = "validated"
    /\ PlainProperties(schema)
    /\ OnlyAdditionalPropertiesErrors(validateSchemaForStrictMode(schema, "root").errors) )
  => validation.valid

C9_Witness ==
  /\ spc = "validated"
  /\ PlainProperties(schema)
  /\ LET errors == validateSchemaForStrictMode(schema, "root").errors
     IN /\ OnlyAdditionalPropertiesErrors(errors)
        /\ \E i, j \in 1..Len(errors) : errors[i].path # errors[j].path
  /\ validation.valid

\* the relation C10 states between a node and its rewriting; with strict, the
\* keys other than properties, items and additionalProperties are copied
\* unchanged, without it the objects under them are rewritten as well
RECURSIVE StampedCopy(_, _, _)
StampedCopy(original, result, strict) ==
  LET s == original.obj
      isObject == TypeOf(s) = JStr("object")
  IN /\ IsObj(result)
     /\ DOMAIN result.obj =
          DOMAIN s \cup (IF isObject THEN {"additionalProperties"} ELSE {})
     /\ isObject => result.obj["additionalProperties"] = JBool(FALSE)
     /\ \A key \in DOMAIN s :
          IF key = "additionalProperties" /\ isObject THEN TRUE
          ELSE IF key = "properties" /\ IsObjectLike(s[key])
            THEN /\ IsObj(result.obj[key])
                 /\ DOMAIN result.obj[key].obj = DOMAIN EntriesOf(s[key])
                 /\ \A propKey \in DOMAIN EntriesOf(s[key]) :
                      IF IsObj(EntriesOf(s[key])[propKey])
                        THEN StampedCopy(EntriesOf(s[key])[propKey],
                                         result.obj[key].obj[propKey], strict)
                      ELSE result.obj[key].obj[propKey] = EntriesOf(s[key])[propKey]
          ELSE IF key = "items" /\ IsObj(s[key])
            THEN StampedCopy(s[key], result.obj[key], strict)
          ELSE IF ~strict /\ IsObj(s[key])
            THEN StampedCopy(s[key], result.obj[key], strict)
          ELSE result.obj[key] = s[key]

\* C10 as stated: every node of type object, at every depth reached through
\* properties values and single-schema items, has additionalProperties false,
\* no other node is given the field, and every other key is copied unchanged.
C10_ObjectNodesStamped ==
  spc \in {"rewritten", "validated"} => StampedCopy(schema, rewritten, TRUE)

\* C10: every node of type object, at every depth reached through properties
\* values, single-schema items and any other key holding an object, has
\* additionalProperties false (whatever it held before), no other node is
\* given the field, and every key other than properties that holds a
\* primitive or an array is copied unchanged.
C10_ObjectNodesStampedEverywhere ==
  spc \in {"rewritten", "validated"} => StampedCopy(schema, rewritten, FALSE)

C10_Witness ==
  /\ spc = "rewritten"
  /\ schema =
       JObj([type |-> JStr("array"),
             items |-> JObj([type |-> JStr("object"),
                             properties |->
                               JObj([a |-> JObj([type |-> JStr("object"),
                                                 properties |-> JObj(<<>>),
                                                 additionalProperties |-> JBool(TRUE)])])])])
  /\ "additionalProperties" \notin DOMAIN rewritten.obj
  /\ rewritten.obj["items"].obj["additionalProperties"] = JBool(FALSE)
  /\ rewritten.obj["items"].obj["properties"].obj["a"].obj["additionalProperties"]
       = JBool(FALSE)

\* C11: the rewriter writes to no object of its input. The caller's schema
\* reads the same before the rewriting, after it, after the validation of the
\* result and after a second rewriting, and the first result is left as it was
\* when it is itself rewritten.
C11_NonMutation ==
  /\ spc \in {"start", "rewritten", "validated", "again"} => Deref(heap, root) = schema
  /\ spc \in {"rewritten", "validated", "again"} =>
       Deref(heap, rewrittenCell) = rewritten

C11_Witness ==
  /\ spc = "validated"
  /\ rewritten # schema
  /\ Deref(heap, root) = schema
  /\ Deref(heap, rewrittenCell) = rewritten
  /\ "properties" \in DOMAIN schema.obj
  /\ IsObj(schema.obj["properties"])
  /\ \E key \in DOMAIN schema.obj["properties"].obj :
       /\ IsObj(schema.obj["properties"].obj[key])
       /\ rewritten.obj["properties"].obj[key] # schema.obj["properties"].obj[key]

\* C12: rewriting the rewriter's result gives that result again.
C12_Idempotent == spc = "again" => again = rewritten

C12_Witness ==
  /\ spc = "again"
  /\ rewritten # schema
  /\ again = rewritten
  /\ \E key \in DOMAIN rewritten.obj :
       IsObj(rewritten.obj[key]) /\ rewritten.obj[key] # schema.obj[key]

\* ------------------------------------------------------------------------
\* C13: tools that fail the strict-mode validation fail the whole request
\* ------------------------------------------------------------------------
\* str contains sub
Contains(str, sub) ==
  \E k \in 0..(Len(str) - Len(sub)) : SubSeq(str, k + 1, k + Len(sub)) = sub

\* the tools the payload translates to, and what the validator finds in them
TranslatedTools == translateGeminiToolsToOpenAI(tools)

ViolationsFound ==
  IF Len(TranslatedTools) = 0 THEN <<>>
  ELSE validateToolsForStrictMode(TranslatedTools[1]).errors

\* C13: when the payload translates to at least one tool and the validator finds
\* a violation in any of them, translateGeminiToOpenAI never gets past the
\* validation (no payload is returned), it throws one error whose message holds
\* the numbered line "i. [path] message" of every violation found, and
\* createChatCompletions is never called for the request.
C13_InvalidToolsFailRequest ==
  Len(ViolationsFound) > 0 =>
    /\ pc \notin {"guard", "done", "called"}
    /\ backendRequests = <<>>
    /\ pc \in {"thrown", "failed"} =>
         /\ Len(thrown) = 1
         /\ \A i \in 1..Len(ViolationsFound) :
              Contains(thrown[1],
                       ToString(i) \o ". [" \o ViolationsFound[i].path \o "] "
                       \o ViolationsFound[i].message)
    /\ pc \notin {"thrown", "failed"} => thrown = <<>>

\* a request with a compliant tool and two non-compliant ones was answered with
\* the error, and the report lists at least three violations
C13_Witness ==
  /\ pc = "failed"
  /\ Len(TranslatedTools) = 1
  /\ Len(TranslatedTools[1]) >= 2
  /\ Len(ViolationsFound) >= 3
  /\ \E i \in 1..Len(TranslatedTools[1]) :
       validateToolsForStrictMode(<<TranslatedTools[1][i]>>).valid
  /\ backendRequests = <<>>
  /\ Len(reply) = 1
  /\ reply[1].error.message = thrown[1]

\* ------------------------------------------------------------------------
\* C14: the validators accumulate
\* ------------------------------------------------------------------------
\* the nodes the schema validator walks to, each with its path: the entries of
\* the properties of an object type, the items of an array type
RECURSIVE VisitedNodes(_, _)
VisitedNodes(v, path) ==
  IF ~IsObjectLike(v) THEN {}
  ELSE
    LET entries == EntriesOf(v)
        IsType(t) == "type" \in DOMAIN entries /\ entries["type"] = JStr(t)
        below ==
          IF IsType("object") /\ "properties" \in DOMAIN entries
             /\ IsObjectLike(entries["properties"])
            THEN LET properties == EntriesOf(entries["properties"])
                 IN UNION { VisitedNodes(properties[k], path \o ".properties." \o k) :
                            k \in DOMAIN properties }
          ELSE IF IsType("array") /\ "items" \in DOMAIN entries
            THEN VisitedNodes(entries["items"], path \o ".items")
          ELSE {}
    IN {[path |-> path, node |-> v]} \cup below

\* the rules one node breaks, by the message of each
RulesBroken(v) ==
  LET entries == EntriesOf(v)
      IsType(t) == "type" \in DOMAIN entries /\ entries["type"] = JStr(t)
  IN (IF IsType("object")
         /\ ~("additionalProperties" \in DOMAIN entries
              /\ entries["additionalProperties"] = JBool(FALSE))
        THEN {MsgAdditionalProperties} ELSE {})
     \cup (IF IsType("object") /\ "properties" \notin DOMAIN entries
            THEN {MsgProperties} ELSE {})
     \cup (IF IsType("array") /\ "items" \notin DOMAIN entries THEN {MsgItems} ELSE {})
     \cup (IF "nullable" \in DOMAIN entries THEN {MsgNullable} ELSE {})
     \cup (IF "$ref" \in DOMAIN entries THEN {MsgRef} ELSE {})

\* the number of entries of errors with this path and this message
Entries(errors, path, message) ==
  Cardinality({i \in 1..Len(errors) :
                 errors[i].path = path /\ errors[i].message = message})

\* every rule a visited node breaks has exactly one entry
SchemaViolationsListed(v, path, errors) ==
  \A n \in VisitedNodes(v, path) :
    \A message \in RulesBroken(n.node) : Entries(errors, n.path, message) = 1

HasFunctionType(tool) == "type" \in DOMAIN tool.obj /\ tool.obj["type"] = JStr("function")

IsStrict(tool) ==
  LET fn == tool.obj["function"]
  IN "strict" \in DOMAIN fn.obj /\ fn.obj["strict"] = JBool(TRUE)

\* every defect of the i-th tool record (i counted from 0) has an entry
ToolViolationsListed(tool, i, errors) ==
  LET at == "tools[" \o ToString(i) \o "]"
  IN /\ ~HasFunctionType(tool) =>
          \E k \in 1..Len(errors) : errors[k].path = at \o ".type"
     /\ ~HasTruthy(tool.obj["function"], "name") =>
          \E k \in 1..Len(errors) : errors[k].path = at \o ".function.name"
     /\ IsStrict(tool) =>
          SchemaViolationsListed(tool.obj["function"].obj["parameters"],
                                 at \o ".function.parameters", errors)

\* C14: the validators do not stop at the first violation. After
\* validateSchemaForStrictMode, every rule broken at every node it walks to has
\* one entry in errors; after validateToolsForStrictMode, every defect of every
\* tool record (a wrong type, a missing name, each violation of its strict
\* parameter schema) has an entry; and valid is true exactly when errors is empty.
C14_AllViolationsListed ==
  /\ spc = "schemaChecked" =>
       /\ SchemaViolationsListed(schema, "root", validation.errors)
       /\ validation.valid <=> Len(validation.errors) = 0
  /\ spc = "toolsChecked" =>
       /\ \A i \in 1..Len(openAITools[1]) :
            ToolViolationsListed(openAITools[1][i], i - 1, toolsValidation.errors)
       /\ toolsValidation.valid <=> Len(toolsValidation.errors) = 0

\* ------------------------------------------------------------------------
\* C15: null values, nullable and $ref anywhere in the schema tree
\* ------------------------------------------------------------------------
\* the paths of the keys whose value is null, in the object v at path and in
\* every object below it
RECURSIVE NullKeyPaths(_, _)
NullKeyPaths(v, path) ==
  IF ~IsObj(v) THEN {}
  ELSE UNION { IF IsNull(v.obj[k]) THEN {path \o "." \o k}
               ELSE NullKeyPaths(v.obj[k], path \o "." \o k) : k \in DOMAIN v.obj }

\* the paths of the objects that carry key, v at path and every object below it
RECURSIVE NodesWithKey(_, _, _)
NodesWithKey(v, path, key) ==
  IF ~IsObj(v) THEN {}
  ELSE (IF key \in DOMAIN v.obj THEN {path} ELSE {})
       \cup UNION { NodesWithKey(v.obj[k], path \o "." \o k, key) : k \in DOMAIN v.obj }

\* C15: after validateSchemaForStrictMode(schema), every key of every object of
\* the schema tree whose value is null has an error at its path ("root", then the
\* keys down to it), every object of the tree that carries nullable or $ref has
\* the error of that rule at its path, and the schema is as it was.
C15_ReportedAtAnyDepth ==
  spc = "schemaChecked" =>
    /\ \A path \in NullKeyPaths(schema, "root") :
         \E i \in 1..Len(validation.errors) : validation.errors[i].path = path
    /\ \A path \in NodesWithKey(schema, "root", "nullable") :
         Entries(validation.errors, path, MsgNullable) >= 1
    /\ \A path \in NodesWithKey(schema, "root", "$ref") :
         Entries(validation.errors, path, MsgRef) >= 1
    /\ Deref(heap, root) = schema

\* ------------------------------------------------------------------------
\* Vocabulary of the stream properties
\* ------------------------------------------------------------------------
WellFormedData == { ChunkTexts[i].data : i \in 1..Len(ChunkTexts) }

ChunkOf(rawEvent) ==
  ChunkTexts[CHOOSE i \in 1..Len(ChunkTexts) : ChunkTexts[i].data = rawEvent.data].chunk

CarriesData(rawEvent) == "data" \in DOMAIN rawEvent /\ rawEvent.data \notin {"", "[DONE]"}

\* the fragments of a chunk's delta that carry a function name
FragmentsOf(chunk) == ToolCallsIn(chunk.choices[1].delta)

IsNamedFragment(tc) ==
  /\ "function" \in DOMAIN tc
  /\ "name" \in DOMAIN tc.function
  /\ tc.function.name \notin {"", Null, Undefined}

\* the arguments a fragment carries parse
ArgumentsParse(tc) ==
  "arguments" \in DOMAIN tc.function /\ tc.function.arguments # ""
    => JSONParse(tc.function.arguments).ok

\* an event whose data is a chunk the translator takes
IsWellFormed(rawEvent) ==
  /\ CarriesData(rawEvent)
  /\ rawEvent.data \in WellFormedData
  /\ \A k \in 1..Len(FragmentsOf(ChunkOf(rawEvent))) :
       IsNamedFragment(FragmentsOf(ChunkOf(rawEvent))[k])
         => ArgumentsParse(FragmentsOf(ChunkOf(rawEvent))[k])

\* an event whose data does not parse, or whose translation throws
IsFailing(rawEvent) == CarriesData(rawEvent) /\ ~IsWellFormed(rawEvent)

\* the position of the first "[DONE]", or one past the end
FirstDone ==
  IF \E i \in 1..Len(upstream) : Get(upstream[i], "data") = "[DONE]"
    THEN CHOOSE i \in 1..Len(upstream) :
           /\ Get(upstream[i], "data") = "[DONE]"
           /\ \A j \in 1..(i - 1) : Get(upstream[j], "data") # "[DONE]"
  ELSE Len(upstream) + 1

\* the events written so far come from increasing positions of the stream
InArrivalOrder == \A j, k \in 1..Len(sse) : j < k => sse[j].event < sse[k].event

C17_DoneStopsEmptySkips ==
  /\ eventCount <= FirstDone
  /\ \A k \in 1..Len(sse) :
       /\ sse[k].event < FirstDone
       /\ Truthy(Get(upstream[sse[k].event], "data"))
  /\ (FirstDone <= Len(upstream) /\ eventCount = FirstDone) => ~streaming
  /\ ~streaming =>
       eventCount = (IF FirstDone <= Len(upstream) THEN FirstDone ELSE Len(upstream))

\* the stream is over: an event without usable data came before the sentinel, a
\* well-formed event was written after that one, and a well-formed event behind
\* the sentinel was never received
C17_Witness ==
  /\ ~streaming
  /\ Len(upstream) = 3
  /\ FirstDone = 3
  /\ eventCount = 3
  /\ ~Truthy(Get(upstream[1], "data"))
  /\ Len(sse) = 1
  /\ sse[1].event = 2

IsEmptyCandidate(candidate) ==
  Len(candidate.content.parts) = 0 /\ "finishReason" \notin DOMAIN candidate

\* the payload the translation of an event serialises to
PayloadOf(rawEvent) == StringifyResponse(translateOpenAIToGemini(ChunkOf(rawEvent)))

\* C19: a delta without text and without a named fragment translates to a
\* candidate with zero parts; no payload written to the client has a candidate
\* with zero parts and no finishReason; and every received well-formed event
\* whose translation has a part or a finishReason is written.
C19_EmptyCandidatesFiltered ==
  /\ \A i \in 1..eventCount :
       (IsWellFormed(upstream[i])
        /\ ~Truthy(Get(ChunkOf(upstream[i]).choices[1].delta, "content"))
        /\ \A j \in 1..Len(FragmentsOf(ChunkOf(upstream[i]))) :
             ~IsNamedFragment(FragmentsOf(ChunkOf(upstream[i]))[j]))
         => Len(PayloadOf(upstream[i]).candidates[1].content.parts) = 0
  /\ \A k \in 1..Len(sse) :
       \A c \in 1..Len(sse[k].data.candidates) :
         ~IsEmptyCandidate(sse[k].data.candidates[c])
  /\ \A i \in 1..eventCount :
       (i < FirstDone /\ IsWellFormed(upstream[i])
        /\ ~IsEmptyCandidate(PayloadOf(upstream[i]).candidates[1]))
         => \E k \in 1..Len(sse) : sse[k].event = i

\* ------------------------------------------------------------------------
\* C20: tool-call fragments of a stream chunk
\* ------------------------------------------------------------------------
NamedOf(chunk) == SelectSeq(FragmentsOf(chunk), IsNamedFragment)

\* the arguments a fragment carries itself, parsed, or {}
OwnArgs(tc) ==
  IF "arguments" \in DOMAIN tc.function /\ tc.function.arguments # ""
    THEN JSONParse(tc.function.arguments).value
  ELSE <<>>

CallsOf(payload) == SelectSeq(payload.candidates[1].content.parts, isFunctionCallPart)

\* C20: the functionCall parts of a written chunk are, in order, the fragments
\* of its source event that carry a function name, each with the arguments that
\* same fragment carries, parsed, or {} when it carries none; a fragment without
\* a name gives no part, and its arguments appear in no part of this or of any
\* other chunk.
C20_NamedFragmentsOnly ==
  \A k \in 1..Len(sse) :
    LET named == NamedOf(ChunkOf(upstream[sse[k].event]))
        calls == CallsOf(sse[k].data)
    IN /\ Len(calls) = Len(named)
       /\ \A j \in 1..Len(calls) :
            calls[j].functionCall =
              [name |-> named[j].function.name, args |-> OwnArgs(named[j])]

\* three chunks were written: a named fragment without arguments followed by a
\* continuation gave one call with {}, a continuation on its own gave no part,
\* and a named fragment with complete arguments gave a call with those
C20_Witness ==
  /\ Len(sse) = 3
  /\ Len(FragmentsOf(ChunkOf(upstream[1]))) = 2
  /\ Len(CallsOf(sse[1].data)) = 1
  /\ CallsOf(sse[1].data)[1].functionCall = [name |-> "f", args |-> <<>>]
  /\ Len(FragmentsOf(ChunkOf(upstream[2]))) = 1
  /\ Len(sse[2].data.candidates[1].content.parts) = 0
  /\ Len(CallsOf(sse[3].data)) = 1
  /\ CallsOf(sse[3].data)[1].functionCall.args = << <<"p", "v">> >>

\* ------------------------------------------------------------------------
\* C21: translateOpenAIToGemini on a complete response
\* ------------------------------------------------------------------------
BadArguments(resp) ==
  \E k \in 1..Len(resp.choices) :
    \E j \in 1..Len(ToolCallsIn(resp.choices[k].message)) :
      ~JSONParse(resp.choices[k].message.tool_calls[j].function.arguments).ok

\* the parts a choice is expected to give: its text, then its calls in order
ExpectedParts(choice) ==
  LET calls == ToolCallsIn(choice.message)
  IN (IF choice.message.content \in {"", Null, Undefined} THEN <<>>
      ELSE <<[text |-> choice.message.content]>>)
     \o [j \in 1..Len(calls) |->
           [functionCall |->
              [name |-> calls[j].function.name,
               args |-> JSONParse(calls[j].function.arguments).value]]]

\* C21: a complete response translates to exactly one candidate per choice, in
\* order, each with role model and with the text part (when the content is not
\* empty) followed by one functionCall part per tool call in order; when the
\* arguments of any tool call are not valid JSON the translation throws, and
\* nothing is returned or sent.
C21_CandidatePerChoiceOrThrow ==
  ~IsChunk(response) =>
    /\ rpc \in {"translated", "sent"} =>
         /\ ~BadArguments(response)
         /\ Len(geminiResponse.candidates) = Len(response.choices)
         /\ \A k \in 1..Len(response.choices) :
              /\ geminiResponse.candidates[k].content.role = "model"
              /\ geminiResponse.candidates[k].content.parts
                   = ExpectedParts(response.choices[k])
    /\ rpc = "threw" =>
         /\ BadArguments(response)
         /\ geminiResponse = [candidates |-> <<>>]
         /\ wire = [candidates |-> <<>>]

\* two choices were translated, one with text only and one with a call only
C21_Witness ==
  /\ ~IsChunk(response)
  /\ rpc = "sent"
  /\ Len(geminiResponse.candidates) = 2
  /\ Len(geminiResponse.candidates[1].content.parts) = 1
  /\ isTextPart(geminiResponse.candidates[1].content.parts[1])
  /\ isFunctionCallPart(geminiResponse.candidates[2].content.parts[1])

\* a response with a tool call whose arguments do not parse made the translator throw
C21_WitnessThrow ==
  /\ ~IsChunk(response)
  /\ rpc = "threw"
  /\ Len(response.choices) = 2

\* ------------------------------------------------------------------------
\* handleGenerateContent: the checks before the translation, the backend
\* call and the catch block
\* ------------------------------------------------------------------------
\* path.match(/\/models\/([^:]+):/)?.[1]: the text between the first
\* "/models/" that is followed by a character other than ':' and the next ':'
ModelMatch(path) ==
  LET starts == {s \in 1..Len(path) :
                   /\ s + 8 <= Len(path)
                   /\ SubSeq(path, s, s + 7) = "/models/"
                   /\ SubSeq(path, s + 8, s + 8) # ":"
                   /\ \E c \in (s + 9)..Len(path) : SubSeq(path, c, c) = ":"}
  IN IF starts = {} THEN <<>>
     ELSE LET s == CHOOSE x \in starts : \A y \in starts : x <= y
              c == CHOOSE x \in (s + 9)..Len(path) :
                     /\ SubSeq(path, x, x) = ":"
                     /\ \A y \in (s + 9)..(x - 1) : SubSeq(path, y, y) # ":"
          IN <<SubSeq(path, s + 8, c - 1)>>

SUPPORTED_GEMINI_MODELS == <<"gemini-2.5-pro", "gemini-3-pro-preview">>

IsSupported(model) ==
  \E k \in 1..Len(SUPPORTED_GEMINI_MODELS) : SUPPORTED_GEMINI_MODELS[k] = model

\* geminiPayload[key]: undefined (absent) unless the payload is an object with the key
Property(value, key) ==
  IF IsObj(value) /\ key \in DOMAIN value.obj THEN <<value.obj[key]>> ELSE <<>>

\* !geminiPayload.contents || !Array.isArray(geminiPayload.contents)
ContentsRejected(value) ==
  LET c == Property(value, "contents")
  IN IF Len(c) = 0 THEN TRUE ELSE ~(JsTruthy(c[1]) /\ IsArr(c[1]))

\* the tool lists of the requests: absent, empty, or a single tool
HandlerToolLists == {tl \in ToolLists : Len(tl) = 0 \/ Len(tl[1]) <= 1}

\* what c.req.json() makes of the body: a rejection, or a JSON value
Bodies ==
  {[parses |-> FALSE]}
  \cup {[parses |-> TRUE, value |-> v] :
          v \in {JNull, JStr("hi"), JArr(<<>>), JObj(<<>>),
                 JObj([contents |-> JNull]), JObj([contents |-> JStr("hi")]),
                 JObj([contents |-> JObj(<<>>)])}}
  \cup {[parses |-> TRUE, value |-> JObj([contents |-> JArr(conv)])] :
          conv \in ToolConversations}
  \cup {[parses |-> TRUE,
         value |-> JObj([contents |-> JArr(conv), tools |-> JArr(tl[1])])] :
          conv \in ToolConversations, tl \in HandlerToolLists \ {<<>>}}

Paths ==
  {"/v1/models/gemini-2.5-pro:generateContent",
   "/v1beta/models/gemini-3-pro-preview:streamGenerateContent",
   "/v1/models/gpt-4:generateContent",
   "/v1/models/gemini-2.5-pro/x:generateContent",
   "/v1/models/:generateContent",
   "/v1/models/gemini-2.5-pro"}

\* the responses the backend fails with
BackendStatuses == {400, 429, 503}
BackendBodies == {"{\"error\":{\"message\":\"quota\"}}", "Not valid JSON", ""}

\* what reading a property of null throws, by runtime
NullPropertyMessages ==
  {"Cannot read properties of null (reading 'tools')",
   "null is not an object (evaluating 'geminiPayload.tools')"}

\* what httpError.response.clone().text() gives: the body while it is unread;
\* on a body that was read, clone() throws or the copy is empty, by runtime
CloneText(error) ==
  IF error.bodyUsed THEN {[ok |-> FALSE, text |-> ""], [ok |-> TRUE, text |-> ""]}
  ELSE {[ok |-> TRUE, text |-> error.body]}

\* forwardError: the answers it can give for an error thrown out of the handler
forwardError(error) ==
  IF "status" \in DOMAIN error
    THEN LET errorTexts ==
               IF error.responseBody # ""
                 THEN {error.responseBody}
               ELSE {IF read.ok THEN read.text
                     ELSE "Could not read error response body" :
                       read \in CloneText(error)}
         IN {[status |-> error.status,
              error |-> [message |-> text, type |-> "error", status |-> error.status]] :
               text \in errorTexts}
  ELSE {[status |-> 500, error |-> [message |-> error.message, type |-> "error"]]}

InitHandler ==
  /\ CleanupIdle
  /\ FormatIdle
  /\ lastFinishReason = Undefined
  /\ ConcurrentIdle
  /\ RequestIdle
  /\ ResponseIdle
  /\ SchemaIdle
  /\ ToolsIdle
  /\ StreamIdle
  /\ request \in [body : Bodies, path : Paths]
  /\ hpc = "received"
  /\ backendError = <<>>

handlerRest == <<translateVars, responseVars, schemaVars, streamVars, tools, openAITools,
                 toolsValidation, thrown, backendRequests, request, cleanupVars, formatVars,
                 lastFinishReason, concurrentVars>>

\* c.req.json() throws: 400
RejectInvalidJson ==
  /\ hpc = "received"
  /\ ~request.body.parses
  /\ reply' = <<[status |-> 400, error |-> JStr("Invalid JSON in request body")]>>
  /\ hpc' = "replied"
  /\ UNCHANGED <<handlerRest, backendError>>

\* geminiPayload.tools on a body that is null throws a TypeError, which leaves
\* the handler; the route's catch hands it to forwardError, which answers 500
ThrowOnNullBody ==
  /\ hpc = "received"
  /\ request.body.parses
  /\ IsNull(request.body.value)
  /\ \E text \in NullPropertyMessages :
       \E answer \in forwardError([message |-> text]) : reply' = <<answer>>
  /\ hpc' = "replied"
  /\ UNCHANGED <<handlerRest, backendError>>

RejectContents ==
  /\ hpc = "received"
  /\ request.body.parses
  /\ ~IsNull(request.body.value)
  /\ ContentsRejected(request.body.value)
  /\ reply' = <<[status |-> 400,
                 error |-> [message |-> "Request must include 'contents' array",
                            code |-> 400]]>>
  /\ hpc' = "replied"
  /\ UNCHANGED <<handlerRest, backendError>>

\* the three checks of the body are behind the request
BodyAccepted ==
  /\ request.body.parses
  /\ ~IsNull(request.body.value)
  /\ ~ContentsRejected(request.body.value)

RejectNoModel ==
  /\ hpc = "received"
  /\ BodyAccepted
  /\ Len(ModelMatch(request.path)) = 0
  /\ reply' = <<[status |-> 400, error |-> JStr("Model parameter is required")]>>
  /\ hpc' = "replied"
  /\ UNCHANGED <<handlerRest, backendError>>

RejectUnsupportedModel ==
  /\ hpc = "received"
  /\ BodyAccepted
  /\ Len(ModelMatch(request.path)) > 0
  /\ ~IsSupported(ModelMatch(request.path)[1])
  /\ reply' = <<[status |-> 400,
                 error |-> [message |-> "Unsupported model: "
                                        \o ModelMatch(request.path)[1]
                                        \o ". Supported models: "
                                        \o "gemini-2.5-pro, gemini-3-pro-preview",
                            code |-> 400]]>>
  /\ hpc' = "replied"
  /\ UNCHANGED <<handlerRest, backendError>>

\* every check passed: translateGeminiToOpenAI(geminiPayload) starts
BeginTranslation ==
  /\ hpc = "received"
  /\ BodyAccepted
  /\ Len(ModelMatch(request.path)) > 0
  /\ IsSupported(ModelMatch(request.path)[1])
  /\ contents' = request.body.value.obj["contents"].arr
  /\ tools' = IF "tools" \in DOMAIN request.body.value.obj
                THEN <<request.body.value.obj["tools"].arr>>
              ELSE <<>>
  /\ pc' = "system"
  /\ hpc' = "translating"
  /\ UNCHANGED <<systemInstruction, ci, fi, now, toolCallIdQueue, globalCallIndex,
                 toolCallIdIndex, messages, responseVars, schemaVars, streamVars,
                 openAITools, toolsValidation, thrown, backendRequests, reply, request,
                 backendError, cleanupVars, formatVars, lastFinishReason, concurrentVars>>

\* createChatCompletions: the backend answers 2xx
BackendResponds ==
  /\ hpc = "translating"
  /\ pc = "called"
  /\ hpc' = "responded"
  /\ UNCHANGED <<handlerRest, reply, backendError>>

\* createChatCompletions: the backend answers non-2xx; the body is read with
\* response.text() and kept on the HTTPError that is thrown
BackendFails ==
  /\ hpc = "translating"
  /\ pc = "called"
  /\ \E status \in BackendStatuses, body \in BackendBodies :
       backendError' = <<[message |-> "Failed to create chat completions",
                          status |-> status, body |-> body,
                          responseBody |-> body, bodyUsed |-> TRUE]>>
  /\ hpc' = "caught"
  /\ UNCHANGED <<handlerRest, reply>>

\* catch: "response" in error, and the body could be read
ReplyBackendError ==
  /\ hpc = "caught"
  /\ \E read \in CloneText(backendError[1]) :
       /\ read.ok
       /\ reply' = <<[status |-> backendError[1].status,
                      error |-> [message |-> "Copilot API error: " \o read.text,
                                 code |-> backendError[1].status]]>>
  /\ hpc' = "replied"
  /\ UNCHANGED <<handlerRest, backendError>>

\* catch: reading the body threw, the fallback answers 500 with error.message
ReplyInternalError ==
  /\ hpc = "caught"
  /\ \E read \in CloneText(backendError[1]) : ~read.ok
  /\ reply' = <<[status |-> 500,
                 error |-> [message |-> backendError[1].message, code |-> 500]]>>
  /\ hpc' = "replied"
  /\ UNCHANGED <<handlerRest, backendError>>

NextHandler ==
  \/ NextTools
  \/ RejectInvalidJson
  \/ ThrowOnNullBody
  \/ RejectContents
  \/ RejectNoModel
  \/ RejectUnsupportedModel
  \/ BeginTranslation
  \/ BackendResponds
  \/ BackendFails
  \/ ReplyBackendError
  \/ ReplyInternalError

SpecHandler == InitHandler /\ [][NextHandler]_vars

\* ------------------------------------------------------------------------
\* C22: the requests the handler turns away before translating
\* ------------------------------------------------------------------------
\* the texts found between a "/models/" and the first ':' after it
ModelSegments(path) ==
  LET after == {x + 8 : x \in {x \in 1..(Len(path) - 7) : SubSeq(path, x, x + 7) = "/models/"}}
      colons == {y \in 1..Len(path) : SubSeq(path, y, y) = ":"}
  IN {SubSeq(path, a, b - 1) :
        <<a, b>> \in {<<x, y>> \in after \X colons :
                       x < y /\ \A z \in colons : ~(x <= z /\ z < y)}}

HasContentsArray(body) ==
  /\ body.parses
  /\ "obj" \in DOMAIN body.value
  /\ "contents" \in DOMAIN body.value.obj
  /\ "arr" \in DOMAIN body.value.obj["contents"]

\* one of the four defects the handler checks for
IsInvalidRequest(req) ==
  \/ ~req.body.parses
  \/ ~HasContentsArray(req.body)
  \/ ModelSegments(req.path) = {}
  \/ ModelSegments(req.path) \cap {"gemini-2.5-pro", "gemini-3-pro-preview"} = {}

\* an answer given before the translation has started
AnsweredByChecks == hpc = "replied" /\ pc = "idle"

\* C22: once the handler has acted, a request whose body is not valid JSON,
\* whose contents is missing or not an array, whose path has no model segment
\* or whose model is not on the allow-list has been answered 400 with the
\* translation never started and the backend never called; a request with none
\* of these defects is not answered by the checks.
C22_InvalidRequestsRejected ==
  hpc \notin {"idle", "received"} =>
    /\ IsInvalidRequest(request) =>
         /\ AnsweredByChecks
         /\ reply[1].status = 400
         /\ backendRequests = <<>>
         /\ messages = <<>>
    /\ ~IsInvalidRequest(request) => ~AnsweredByChecks

\* the same, for the bodies that are not the JSON value null
C22_ExceptNullBody ==
  (hpc \notin {"idle", "received"}
   /\ ~(request.body.parses /\ "null" \in DOMAIN request.body.value)) =>
    /\ IsInvalidRequest(request) =>
         /\ AnsweredByChecks
         /\ reply[1].status = 400
         /\ backendRequests = <<>>
         /\ messages = <<>>
    /\ ~IsInvalidRequest(request) => ~AnsweredByChecks

\* ------------------------------------------------------------------------
\* C23: what the client is told when the backend call fails
\* ------------------------------------------------------------------------
\* C23: when the backend has answered non-2xx and the handler has replied, the
\* reply's HTTP status is the backend's status and the error body it reports is
\* the backend's body, character for character, whether or not that body is
\* valid JSON.
C23_BackendErrorVerbatim ==
  (Len(backendError) > 0 /\ hpc = "replied") =>
    /\ reply[1].status = backendError[1].status
    /\ reply[1].error.message = backendError[1].body

\* the status alone: which of the two halves fails depends on whether the
\* consumed body can still be cloned
C23_StatusPreserved ==
  (Len(backendError) > 0 /\ hpc = "replied") =>
    reply[1].status = backendError[1].status

\* forwardError itself reports a cached, non-empty body verbatim under the
\* backend's status
C23_ForwardErrorVerbatim ==
  Len(backendError) > 0 =>
    (backendError[1].responseBody # "" =>
       \A answer \in forwardError(backendError[1]) :
         /\ answer.status = backendError[1].status
         /\ answer.error.message = backendError[1].body)

\* ------------------------------------------------------------------------
\* validateAndCleanupToolConversations and hasIncompleteToolConversations
\* (messages route). A message's content is a string, [text |-> s], or an
\* array of blocks, [blocks |-> <<...>>].
\* ------------------------------------------------------------------------
MaxMessages == 3

IsBlockArray(content) == "blocks" \in DOMAIN content

TextBlock == [type |-> "text", text |-> "ok"]
ToolUse(id) == [type |-> "tool_use", id |-> id, name |-> "f"]
ToolResult(id) == [type |-> "tool_result", tool_use_id |-> id]

\* the blocks of one kind of a message, none when its content is a string
BlocksOfType(message, type) ==
  IF IsBlockArray(message.content)
    THEN SelectSeq(message.content.blocks, LAMBDA block : block.type = type)
  ELSE <<>>

\* the keys of the Map of tool_use blocks
ToolUseIds(msgs) ==
  UNION {{BlocksOfType(msgs[m], "tool_use")[b].id :
            b \in 1..Len(BlocksOfType(msgs[m], "tool_use"))} : m \in 1..Len(msgs)}

\* toolUseBlocks.set(block.id, {messageIndex, ...}): a later set replaces an
\* earlier one, so an id is held with the last message it occurs in
ToolUseMessageIndex(msgs, id) ==
  CHOOSE m \in 1..Len(msgs) :
    /\ \E b \in 1..Len(BlocksOfType(msgs[m], "tool_use")) :
         BlocksOfType(msgs[m], "tool_use")[b].id = id
    /\ \A n \in (m + 1)..Len(msgs) :
         \A b \in 1..Len(BlocksOfType(msgs[n], "tool_use")) :
           BlocksOfType(msgs[n], "tool_use")[b].id # id

\* toolResultBlocks
ToolResultIds(msgs) ==
  UNION {{BlocksOfType(msgs[m], "tool_result")[b].tool_use_id :
            b \in 1..Len(BlocksOfType(msgs[m], "tool_result"))} : m \in 1..Len(msgs)}

\* hasSubsequentMessage: the loop from messageIndex + 1 runs at least once
HasSubsequentMessage(msgs, messageIndex) == messageIndex < Len(msgs)

AbandonedToolUseIds(msgs) ==
  {id \in ToolUseIds(msgs) :
     /\ id \notin ToolResultIds(msgs)
     /\ HasSubsequentMessage(msgs, ToolUseMessageIndex(msgs, id))}

\* message.content.filter(...)
FilterContent(message, abandoned) ==
  IF IsBlockArray(message.content)
    THEN [message EXCEPT !.content.blocks =
            SelectSeq(@, LAMBDA block : ~(block.type = "tool_use" /\ block.id \in abandoned))]
  ELSE message

validateAndCleanupToolConversations(msgs) ==
  IF Len(msgs) = 0 THEN msgs
  ELSE IF AbandonedToolUseIds(msgs) = {} THEN msgs
  ELSE [m \in 1..Len(msgs) |-> FilterContent(msgs[m], AbandonedToolUseIds(msgs))]

hasIncompleteToolConversations(msgs) ==
  \E id \in ToolUseIds(msgs) :
    /\ id \notin ToolResultIds(msgs)
    /\ ToolUseMessageIndex(msgs, id) + 1 <= Len(msgs)

AnthropicMessages ==
  { [role |-> "user", content |-> [text |-> "hi"]],
    [role |-> "assistant", content |-> [text |-> "hello"]],
    [role |-> "assistant", content |-> [blocks |-> <<TextBlock, ToolUse("a")>>]],
    [role |-> "assistant", content |-> [blocks |-> <<ToolUse("a"), ToolUse("b")>>]],
    [role |-> "assistant", content |-> [blocks |-> <<ToolUse("b")>>]],
    [role |-> "user", content |-> [blocks |-> <<ToolResult("a")>>]],
    [role |-> "user", content |-> [blocks |-> <<ToolResult("b"), TextBlock>>]],
    [role |-> "user", content |-> [blocks |-> <<ToolUse("a")>>]] }

AnthropicConversations == UNION {[1..n -> AnthropicMessages] : n \in 0..MaxMessages}

InitCleanup ==
  /\ RequestIdle
  /\ ResponseIdle
  /\ SchemaIdle
  /\ ToolsIdle
  /\ StreamIdle
  /\ HandlerIdle
  /\ FormatIdle
  /\ lastFinishReason = Undefined
  /\ ConcurrentIdle
  /\ anthropicMessages \in AnthropicConversations
  /\ cpc = "start"
  /\ cleaned = <<>>
  /\ incomplete = FALSE
  /\ cleanedAgain = <<>>

cleanupRest == <<translateVars, responseVars, schemaVars, toolsVars, streamVars,
                 handlerVars, formatVars, lastFinishReason, concurrentVars,
                 anthropicMessages>>

Cleanup ==
  /\ cpc = "start"
  /\ cleaned' = validateAndCleanupToolConversations(anthropicMessages)
  /\ cpc' = "cleaned"
  /\ UNCHANGED <<cleanupRest, incomplete, cleanedAgain>>

CheckIncomplete ==
  /\ cpc = "cleaned"
  /\ incomplete' = hasIncompleteToolConversations(cleaned)
  /\ cpc' = "checked"
  /\ UNCHANGED <<cleanupRest, cleaned, cleanedAgain>>

CleanupAgain ==
  /\ cpc = "checked"
  /\ cleanedAgain' = validateAndCleanupToolConversations(cleaned)
  /\ cpc' = "twice"
  /\ UNCHANGED <<cleanupRest, cleaned, incomplete>>

NextCleanup ==
  \/ Cleanup
  \/ CheckIncomplete
  \/ CleanupAgain

SpecCleanup == InitCleanup /\ [][NextCleanup]_vars

\* ------------------------------------------------------------------------
\* C24: which tool_use blocks the cleanup removes
\* ------------------------------------------------------------------------
\* some message of the conversation holds a tool_result for the id
Answered(msgs, id) ==
  \E m \in 1..Len(msgs) :
    /\ "blocks" \in DOMAIN msgs[m].content
    /\ \E b \in 1..Len(msgs[m].content.blocks) :
         /\ msgs[m].content.blocks[b].type = "tool_result"
         /\ msgs[m].content.blocks[b].tool_use_id = id

\* a tool_use block of message m without a result and with a later message
IsAbandoned(msgs, m, block) ==
  /\ block.type = "tool_use"
  /\ ~Answered(msgs, block.id)
  /\ m < Len(msgs)

\* the conversation with exactly the abandoned tool_use blocks taken out
WithoutAbandoned(msgs) ==
  [m \in 1..Len(msgs) |->
     IF "blocks" \in DOMAIN msgs[m].content
       THEN [role |-> msgs[m].role,
             content |->
               [blocks |-> SelectSeq(msgs[m].content.blocks,
                                     LAMBDA block : ~IsAbandoned(msgs, m, block))]]
     ELSE msgs[m]]

\* C24: the cleanup returns the conversation with exactly the tool_use blocks
\* removed that have no tool_result with their id anywhere and are followed by
\* a later message; answered tool_use blocks and unanswered ones in the final
\* message are kept, and the number, order and roles of the messages, string
\* contents and every other block are unchanged.
C24_ExactlyAbandonedRemoved ==
  cpc \in {"cleaned", "checked", "twice"} =>
    cleaned = WithoutAbandoned(anthropicMessages)

\* no tool_use id occurs in two different messages
DistinctToolUseIds(msgs) ==
  \A m \in 1..Len(msgs), n \in 1..Len(msgs) :
    m # n =>
      \A b \in 1..Len(BlocksOfType(msgs[m], "tool_use")) :
        \A d \in 1..Len(BlocksOfType(msgs[n], "tool_use")) :
          BlocksOfType(msgs[m], "tool_use")[b].id # BlocksOfType(msgs[n], "tool_use")[d].id

\* the same, for the conversations in which no tool_use id is used by two messages
C24_WhenIdsDistinct ==
  (cpc \in {"cleaned", "checked", "twice"} /\ DistinctToolUseIds(anthropicMessages)) =>
    cleaned = WithoutAbandoned(anthropicMessages)

\* ------------------------------------------------------------------------
\* C30: what is left after the cleanup
\* ------------------------------------------------------------------------
\* every tool_use block left has a result or sits in the last message
NoAbandonedLeft(msgs) ==
  \A m \in 1..Len(msgs) :
    "blocks" \in DOMAIN msgs[m].content =>
      \A b \in 1..Len(msgs[m].content.blocks) :
        ~IsAbandoned(msgs, m, msgs[m].content.blocks[b])

\* C30: for every input, one with the same tool_use id in several messages
\* included, hasIncompleteToolConversations is false of the cleanup's result,
\* every tool_use block left in it has a matching tool_result or sits in the
\* last message, and a second cleanup returns its input unchanged.
C30_NoAbandonedAfterCleanup ==
  cpc = "twice" =>
    /\ ~incomplete
    /\ NoAbandonedLeft(cleaned)
    /\ cleanedAgain = cleaned

\* the two halves that hold for every input
C30_CheckerAndIdempotence ==
  cpc = "twice" => (~incomplete /\ cleanedAgain = cleaned)

\* ------------------------------------------------------------------------
\* C25: the tool a function declaration translates to
\* ------------------------------------------------------------------------
\* the declarations of the payload's tools, in order
DeclaredFunctions ==
  IF Len(tools) = 0 THEN <<>>
  ELSE Flatten([i \in 1..Len(tools[1]) |->
                  IF "functionDeclarations" \in DOMAIN tools[1][i]
                    THEN tools[1][i].functionDeclarations
                  ELSE <<>>])

IsPopulated(f, key) == key \in DOMAIN f.obj /\ "null" \notin DOMAIN f.obj[key]

\* the selected schema is missing or is an object without keys
SelectedIsEmpty(f) ==
  IF IsPopulated(f, "parametersJsonSchema") THEN f.obj["parametersJsonSchema"] = [obj |-> <<>>]
  ELSE IF IsPopulated(f, "parameters") THEN f.obj["parameters"] = [obj |-> <<>>]
  ELSE TRUE

SelectedSchema(f) ==
  IF IsPopulated(f, "parametersJsonSchema") THEN f.obj["parametersJsonSchema"]
  ELSE f.obj["parameters"]

\* translateGeminiToolsToOpenAI has run
ToolsTranslated == pc \in {"validate", "thrown", "failed", "guard", "done", "called"}

\* C25: once the tools are translated there is one outbound tool per function
\* declaration, in order; its parameters are exactly {type: "object",
\* properties: {}, additionalProperties: false} when the selected schema
\* (parametersJsonSchema if populated, otherwise parameters) is missing or an
\* empty object, and the rewriter's output for the selected schema otherwise;
\* the tool has type "function" and strict true, and no responseJsonSchema.
C25_DeclarationTranslation ==
  ToolsTranslated =>
    /\ Len(openAITools) = (IF Len(DeclaredFunctions) > 0 THEN 1 ELSE 0)
    /\ Len(openAITools) = 1 =>
         /\ Len(openAITools[1]) = Len(DeclaredFunctions)
         /\ \A k \in 1..Len(DeclaredFunctions) :
              LET tool == openAITools[1][k].obj
                  f == DeclaredFunctions[k]
              IN /\ DOMAIN tool = {"type", "function"}
                 /\ tool["type"] = [str |-> "function"]
                 /\ DOMAIN tool["function"].obj \subseteq
                      {"name", "description", "parameters", "strict"}
                 /\ tool["function"].obj["strict"] = [bool |-> TRUE]
                 /\ tool["function"].obj["parameters"] =
                      IF SelectedIsEmpty(f)
                        THEN [obj |-> [type |-> [str |-> "object"],
                                       properties |-> [obj |-> <<>>],
                                       additionalProperties |-> [bool |-> FALSE]]]
                      ELSE addAdditionalPropertiesFalse(SelectedSchema(f))

\* two declarations with an output schema were translated: one through the
\* rewriter, one, whose parametersJsonSchema is {} while parameters is not,
\* to the minimal schema
C25_Witness ==
  /\ ToolsTranslated
  /\ Len(DeclaredFunctions) = 2
  /\ \A k \in 1..2 : "responseJsonSchema" \in DOMAIN DeclaredFunctions[k].obj
  /\ ~SelectedIsEmpty(DeclaredFunctions[1])
  /\ SelectedIsEmpty(DeclaredFunctions[2])
  /\ "parameters" \in DOMAIN DeclaredFunctions[2].obj
  /\ Len(openAITools) = 1
  /\ openAITools[1][2].obj["function"].obj["parameters"] = MinimalSchema
  /\ openAITools[1][1].obj["function"].obj["parameters"] # MinimalSchema

\* ------------------------------------------------------------------------
\* translateGeminiResponseFormatToOpenAI. generationConfig is optional, and
\* so are its two fields: each is a sequence of length 0 or 1.
\* ------------------------------------------------------------------------
\* !value, for an optional string
StringFalsy(opt) == Len(opt) = 0 \/ opt[1] = ""

\* !value, for an optional JSON value
ValueFalsy(opt) == IF Len(opt) = 0 THEN TRUE ELSE ~JsTruthy(opt[1])

\* Object.keys(responseSchema).length
KeyCount(value) == Cardinality(DOMAIN EntriesOf(value))

JsonSchemaFormat(responseSchema) ==
  JObj([type |-> JStr("json_schema"),
        json_schema |->
          JObj([name |-> JStr("gemini_response_schema"),
                schema |-> addAdditionalPropertiesFalse(responseSchema),
                strict |-> JBool(TRUE)])])

translateGeminiResponseFormatToOpenAI_MimeRequired(config) ==
  IF Len(config) = 0 THEN <<>>
  ELSE LET responseMimeType == config[1].responseMimeType
           responseSchema == config[1].responseSchema
       IN IF StringFalsy(responseMimeType) /\ ValueFalsy(responseSchema) THEN <<>>
          ELSE IF /\ responseMimeType = <<"application/json">>
                  /\ (IF ValueFalsy(responseSchema) THEN TRUE
                      ELSE KeyCount(responseSchema[1]) = 0)
            THEN <<JObj([type |-> JStr("json_object")])>>
          ELSE IF /\ responseMimeType = <<"application/json">>
                  /\ (IF ValueFalsy(responseSchema) THEN FALSE
                      ELSE KeyCount(responseSchema[1]) > 0)
            THEN <<JsonSchemaFormat(responseSchema[1])>>
          ELSE <<>>

translateGeminiResponseFormatToOpenAI(config) ==
  IF Len(config) = 0 THEN <<>>
  ELSE LET responseMimeType == config[1].responseMimeType
           responseSchema == config[1].responseSchema
       IN IF StringFalsy(responseMimeType) /\ ValueFalsy(responseSchema) THEN <<>>
          ELSE IF /\ responseMimeType = <<"application/json">>
                  /\ (IF ValueFalsy(responseSchema) THEN TRUE
                      ELSE KeyCount(responseSchema[1]) = 0)
            THEN <<JObj([type |-> JStr("json_object")])>>
          ELSE IF (IF ValueFalsy(responseSchema) THEN FALSE
                   ELSE KeyCount(responseSchema[1]) > 0)
            THEN <<JsonSchemaFormat(responseSchema[1])>>
          ELSE <<>>

MimeTypes == {<<>>, <<"">>, <<"application/json">>, <<"text/plain">>}

ResponseSchemas == {<<>>, <<JNull>>} \cup {<<s>> : s \in Schemas(MaxDepth)}

GenerationConfigs ==
  {<<>>} \cup {<<[responseMimeType |-> m, responseSchema |-> s]>> :
                 m \in MimeTypes, s \in ResponseSchemas}

InitFormat ==
  /\ RequestIdle
  /\ ResponseIdle
  /\ SchemaIdle
  /\ ToolsIdle
  /\ StreamIdle
  /\ HandlerIdle
  /\ CleanupIdle
  /\ lastFinishReason = Undefined
  /\ ConcurrentIdle
  /\ generationConfig \in GenerationConfigs
  /\ fpc = "start"
  /\ responseFormat = <<>>

TranslateResponseFormat ==
  /\ fpc = "start"
  /\ responseFormat' = translateGeminiResponseFormatToOpenAI(generationConfig)
  /\ fpc' = "translated"
  /\ UNCHANGED <<translateVars, responseVars, schemaVars, toolsVars, streamVars,
                 handlerVars, cleanupVars, lastFinishReason, concurrentVars,
                 generationConfig>>

NextFormat == TranslateResponseFormat

SpecFormat == InitFormat /\ [][NextFormat]_vars

\* ------------------------------------------------------------------------
\* C26: the structured-output mapping
\* ------------------------------------------------------------------------
HasMimeType(config) ==
  Len(config) = 1 /\ config[1].responseMimeType \notin {<<>>, <<"">>}

HasSchema(config) ==
  /\ Len(config) = 1
  /\ config[1].responseSchema # <<>>
  /\ "null" \notin DOMAIN config[1].responseSchema[1]

HasNonEmptySchema(config) ==
  HasSchema(config) /\ config[1].responseSchema[1] # [obj |-> <<>>]

\* C26: with neither responseMimeType nor responseSchema the response_format
\* is unset; with responseMimeType application/json and no schema or an empty
\* one it is {type: json_object}; with a non-empty responseSchema, with or
\* without a MIME type, it is {type: json_schema} around the rewritten schema
\* with name gemini_response_schema and strict true.
C26_ResponseFormatMapping ==
  fpc = "translated" =>
    /\ (~HasMimeType(generationConfig) /\ ~HasSchema(generationConfig))
         => responseFormat = <<>>
    /\ (/\ Len(generationConfig) = 1
        /\ generationConfig[1].responseMimeType = <<"application/json">>
        /\ ~HasNonEmptySchema(generationConfig))
         => responseFormat = <<[obj |-> [type |-> [str |-> "json_object"]]]>>
    /\ HasNonEmptySchema(generationConfig)
         => responseFormat =
              <<[obj |->
                   [type |-> [str |-> "json_schema"],
                    json_schema |->
                      [obj |->
                         [name |-> [str |-> "gemini_response_schema"],
                          schema |-> addAdditionalPropertiesFalse(
                                       generationConfig[1].responseSchema[1]),
                          strict |-> [bool |-> TRUE]]]]]>>

\* a nested schema given without a MIME type was wrapped after rewriting
C26_Witness ==
  /\ fpc = "translated"
  /\ ~HasMimeType(generationConfig)
  /\ HasNonEmptySchema(generationConfig)
  /\ Len(responseFormat) = 1
  /\ responseFormat[1].obj["json_schema"].obj["schema"]
       # generationConfig[1].responseSchema[1]

\* ------------------------------------------------------------------------
\* handleGeminiStream: the stream loop that tracks the finish reason, drops
\* empty chunks and closes with a final chunk
\* ------------------------------------------------------------------------
\* geminiChunk.candidates[0]?.finishReason
FirstFinishReason(geminiChunk) ==
  IF Len(geminiChunk.candidates) = 0 THEN Undefined
  ELSE geminiChunk.candidates[1].finishReason

TrackFinishReason_Keep(last, geminiChunk) == last

\* if (finishReason && finishReason !== "FINISH_REASON_UNSPECIFIED") lastFinishReason = ...
TrackFinishReason(last, geminiChunk) ==
  IF /\ Truthy(FirstFinishReason(geminiChunk))
     /\ FirstFinishReason(geminiChunk) # "FINISH_REASON_UNSPECIFIED"
    THEN FirstFinishReason(geminiChunk)
  ELSE last

\* candidates[0]?.content?.parts?.length > 0 || candidates[0]?.finishReason
WorthSending(geminiChunk) ==
  IF Len(geminiChunk.candidates) = 0 THEN FALSE
  ELSE \/ Len(geminiChunk.candidates[1].content.parts) > 0
       \/ Truthy(geminiChunk.candidates[1].finishReason)

\* the chunk written when "[DONE]" arrives and no finish reason was seen
FinalChunk ==
  [candidates |-> <<[content |-> [role |-> "model", parts |-> <<>>],
                    finishReason |-> "STOP"]>>]

InitGeminiStream ==
  /\ RequestIdle
  /\ ResponseIdle
  /\ SchemaIdle
  /\ ToolsIdle
  /\ HandlerIdle
  /\ CleanupIdle
  /\ FormatIdle
  /\ ConcurrentIdle
  /\ upstream \in EventStreams
  /\ eventCount = 0
  /\ streaming = TRUE
  /\ sse = <<>>
  /\ lastFinishReason = Undefined

geminiStreamRest == <<translateVars, responseVars, schemaVars, toolsVars, handlerVars,
                      cleanupVars, formatVars, concurrentVars, upstream>>

\* the backend's stream is exhausted
GeminiStreamEnds ==
  /\ streaming
  /\ eventCount = Len(upstream)
  /\ streaming' = FALSE
  /\ UNCHANGED <<geminiStreamRest, eventCount, sse, lastFinishReason>>

\* "[DONE]": the final chunk is written unless a finish reason was seen; break
GeminiStreamDone ==
  /\ streaming
  /\ eventCount < Len(upstream)
  /\ IsDone(RawEvent)
  /\ sse' = IF ~Truthy(lastFinishReason)
              THEN WriteSSE(sse, [data |-> FinalChunk, event |-> eventCount + 1])
            ELSE sse
  /\ eventCount' = eventCount + 1
  /\ streaming' = FALSE
  /\ UNCHANGED <<geminiStreamRest, lastFinishReason>>

\* if (!rawEvent.data) continue
GeminiStreamSkip ==
  /\ streaming
  /\ eventCount < Len(upstream)
  /\ ~IsDone(RawEvent)
  /\ ~Truthy(Get(RawEvent, "data"))
  /\ eventCount' = eventCount + 1
  /\ UNCHANGED <<geminiStreamRest, streaming, sse, lastFinishReason>>

\* the chunk is parsed and translated, its finish reason is tracked, and it is
\* written
GeminiStreamSend ==
  /\ streaming
  /\ eventCount < Len(upstream)
  /\ HasPayload(RawEvent)
  /\ ParseEvent(RawEvent.data).ok
  /\ ~TranslationThrows(ParseEvent(RawEvent.data).value)
  /\ LET geminiChunk == translateOpenAIToGemini(ParseEvent(RawEvent.data).value)
     IN /\ WorthSending(geminiChunk)
        /\ lastFinishReason' = TrackFinishReason(lastFinishReason, geminiChunk)
        /\ sse' = WriteSSE(sse, [data |-> StringifyResponse(geminiChunk),
                                 event |-> eventCount + 1])
  /\ eventCount' = eventCount + 1
  /\ UNCHANGED <<geminiStreamRest, streaming>>

\* the chunk is parsed and translated, but has neither a part nor a finish
\* reason: nothing is written
GeminiStreamDrop ==
  /\ streaming
  /\ eventCount < Len(upstream)
  /\ HasPayload(RawEvent)
  /\ ParseEvent(RawEvent.data).ok
  /\ ~TranslationThrows(ParseEvent(RawEvent.data).value)
  /\ LET geminiChunk == translateOpenAIToGemini(ParseEvent(RawEvent.data).value)
     IN /\ ~WorthSending(geminiChunk)
        /\ lastFinishReason' = TrackFinishReason(lastFinishReason, geminiChunk)
  /\ eventCount' = eventCount + 1
  /\ UNCHANGED <<geminiStreamRest, streaming, sse>>

\* JSON.parse or the translation throws: the catch block ignores it
GeminiStreamCatch ==
  /\ streaming
  /\ eventCount < Len(upstream)
  /\ HasPayload(RawEvent)
  /\ IF ParseEvent(RawEvent.data).ok
       THEN TranslationThrows(ParseEvent(RawEvent.data).value)
     ELSE TRUE
  /\ eventCount' = eventCount + 1
  /\ UNCHANGED <<geminiStreamRest, streaming, sse, lastFinishReason>>

NextGeminiStream ==
  \/ GeminiStreamEnds
  \/ GeminiStreamDone
  \/ GeminiStreamSkip
  \/ GeminiStreamSend
  \/ GeminiStreamDrop
  \/ GeminiStreamCatch

SpecGeminiStream == InitGeminiStream /\ [][NextGeminiStream]_vars

\* ------------------------------------------------------------------------
\* C28: the final chunk of handleGeminiStream
\* ------------------------------------------------------------------------
\* the loop has taken a "[DONE]" event and left
ReachedDone ==
  /\ ~streaming
  /\ eventCount > 0
  /\ "data" \in DOMAIN upstream[eventCount]
  /\ upstream[eventCount].data = "[DONE]"

\* an event before position n translated to a chunk with a finishReason
FinishReasonBefore(n) ==
  \E i \in 1..(n - 1) :
    /\ IsWellFormed(upstream[i])
    /\ "finishReason" \in DOMAIN PayloadOf(upstream[i]).candidates[1]

\* the positions in the output of the chunks written for event n
WrittenFor(n) == {k \in 1..Len(sse) : sse[k].event = n}

\* C28: when "[DONE]" is reached and no chunk translated before it carried a
\* finishReason, exactly one chunk {role model, no parts, finishReason STOP} is
\* written for it, as the last chunk of the stream; when one did, nothing is
\* written for "[DONE]"; so every stream that reached "[DONE]" has delivered a
\* chunk with a finishReason. Nothing is written for "[DONE]" before it arrives.
C28_FinalChunkOnDone ==
  /\ ReachedDone =>
       /\ ~FinishReasonBefore(eventCount) =>
            /\ WrittenFor(eventCount) = {Len(sse)}
            /\ sse[Len(sse)].data =
                 [candidates |-> <<[content |-> [role |-> "model", parts |-> <<>>],
                                   finishReason |-> "STOP"]>>]
       /\ FinishReasonBefore(eventCount) => WrittenFor(eventCount) = {}
       /\ \E k \in 1..Len(sse) : "finishReason" \in DOMAIN sse[k].data.candidates[1]
  /\ \A k \in 1..Len(sse) :
       /\ sse[k].event <= eventCount
       /\ Get(upstream[sse[k].event], "data") = "[DONE]" => ReachedDone

\* a text chunk and a chunk without parts or finish reason came before "[DONE]":
\* the text was written, then the final chunk
C28_Witness ==
  /\ ReachedDone
  /\ eventCount = 3
  /\ ~FinishReasonBefore(3)
  /\ Len(sse) = 2
  /\ sse[1].event = 1
  /\ sse[2].event = 3

\* a chunk with a finish reason came before "[DONE]": no final chunk
C28_WitnessNone ==
  /\ ReachedDone
  /\ FinishReasonBefore(eventCount)
  /\ WrittenFor(eventCount) = {}
  /\ Len(sse) > 0

\* ------------------------------------------------------------------------
\* C29: the tool messages of a returned payload
\* ------------------------------------------------------------------------
\* the ids of the tool calls of the assistant messages before position m
CallIdsBefore(msgs, m) ==
  UNION {{msgs[j].tool_calls[k].id : k \in 1..Len(msgs[j].tool_calls)} :
           j \in {i \in 1..(m - 1) : "tool_calls" \in DOMAIN msgs[i]}}

ToolMessagePositions(msgs) == {m \in 1..Len(msgs) : msgs[m].role = "tool"}

\* C29: in every returned payload each tool message has a defined tool_call_id
\* that is the id of a tool call of an earlier assistant message, and no two
\* tool messages have the same tool_call_id.
C29_ToolMessagesReferToCalls ==
  pc = "done" =>
    /\ \A m \in ToolMessagePositions(messages) :
         /\ messages[m].tool_call_id # Undefined
         /\ messages[m].tool_call_id \in CallIdsBefore(messages, m)
    /\ \A m, n \in ToolMessagePositions(messages) :
         m # n => messages[m].tool_call_id # messages[n].tool_call_id

\* the first half alone: every tool_call_id is defined
C29_DefinedIds ==
  pc = "done" =>
    \A m \in ToolMessagePositions(messages) : messages[m].tool_call_id # Undefined

\* ------------------------------------------------------------------------
\* translateGeminiContentsToOpenAI as one synchronous call: no await occurs
\* inside it, so the steps of another request cannot come in between
\* ------------------------------------------------------------------------
\* first pass: the ids of all function calls, index counting across contents
RECURSIVE IdQueueOf(_, _, _)
IdQueueOf(conts, t, index) ==
  IF Len(conts) = 0 THEN <<>>
  ELSE LET functionCalls == FunctionCallsOf(conts[1])
       IN [k \in 1..Len(functionCalls) |->
             GenerateId(functionCalls[k].functionCall.name, t, index + k - 1)]
          \o IdQueueOf(Tail(conts), t, index + Len(functionCalls))

\* second pass: the messages of the contents, idIndex being toolCallIdIndex
RECURSIVE SecondPassOf(_, _, _)
SecondPassOf(conts, queue, idIndex) ==
  IF Len(conts) = 0 THEN <<>>
  ELSE LET functionCalls == FunctionCallsOf(conts[1])
           functionResponses == FunctionResponsesOf(conts[1])
       IN IF Len(functionCalls) > 0
            THEN <<[role |-> "assistant",
                    content |-> AssistantTextContent(conts[1]),
                    tool_calls |-> ToolCallsOf(functionCalls, queue, idIndex)]>>
                 \o SecondPassOf(Tail(conts), queue, idIndex + Len(functionCalls))
          ELSE IF Len(functionResponses) > 0
            THEN ToolMessagesOf(functionResponses, Len(functionResponses), {}, 0,
                                queue, idIndex)
                 \o SecondPassOf(Tail(conts), queue, idIndex)
          ELSE <<[role |-> translateGeminiRoleToOpenAI(conts[1]),
                  content |-> translateGeminiPartsToOpenAI(conts[1].parts)]>>
               \o SecondPassOf(Tail(conts), queue, idIndex)

\* the messages of the returned payload when every Date.now() reads t
translateGeminiContentsToOpenAI(conts, instruction, t) ==
  LET system ==
        IF Len(instruction) > 0 /\ extractTextFromParts(instruction[1].parts) # ""
          THEN <<[role |-> "system",
                  content |-> extractTextFromParts(instruction[1].parts)]>>
        ELSE <<>>
      translated == system \o SecondPassOf(conts, IdQueueOf(conts, t, 0), 0)
  IN IF NeedsUserMessage(translated) THEN Append(translated, ContinueMessage)
     ELSE translated

\* the stepwise translation and the single call agree whenever the clock did
\* not move during the translation
StepwiseMatchesCall ==
  (pc = "done" /\ now = 0) =>
    messages = translateGeminiContentsToOpenAI(contents, systemInstruction, 0)

\* ------------------------------------------------------------------------
\* handleGeminiStream, one iteration of the loop as a function of the loop's
\* state: what was written, lastFinishReason, and whether the loop goes on
\* ------------------------------------------------------------------------
StreamStep(st, rawEvent, index) ==
  IF IsDone(rawEvent)
    THEN [sse |-> IF ~Truthy(st.last)
                    THEN WriteSSE(st.sse, [data |-> FinalChunk, event |-> index])
                  ELSE st.sse,
          last |-> st.last, open |-> FALSE]
  ELSE IF ~Truthy(Get(rawEvent, "data")) THEN st
  ELSE IF ~ParseEvent(rawEvent.data).ok THEN st
  ELSE IF TranslationThrows(ParseEvent(rawEvent.data).value) THEN st
  ELSE LET geminiChunk == translateOpenAIToGemini(ParseEvent(rawEvent.data).value)
       IN [sse |-> IF WorthSending(geminiChunk)
                     THEN WriteSSE(st.sse, [data |-> StringifyResponse(geminiChunk),
                                            event |-> index])
                   ELSE st.sse,
           last |-> TrackFinishReason(st.last, geminiChunk),
           open |-> TRUE]

\* the loop's state after the first n events of a stream, handled on their own
RECURSIVE StreamAfter(_, _)
StreamAfter(events, n) ==
  IF n = 0 THEN [sse |-> <<>>, last |-> Undefined, open |-> TRUE]
  ELSE StreamStep(StreamAfter(events, n - 1), events[n], n)

\* the loop of SpecGeminiStream and the iterated step agree
LoopMatchesSteps ==
  /\ sse = StreamAfter(upstream, eventCount).sse
  /\ lastFinishReason = StreamAfter(upstream, eventCount).last

\* ------------------------------------------------------------------------
\* Several requests in flight: handleGenerateContent runs once per request,
\* the runs interleave at their await points
\* ------------------------------------------------------------------------
Requests == {"A", "B"}

MaxConcurrentEvents == 2

\* `let lastFinishReason` is declared inside the streamSSE callback: every
\* request's loop has a variable of its own
LastFinishReasonOf_Shared(r) == "A"

LastFinishReasonOf(r) == r

\* A sends a plain question, B a conversation with a call and its response
ConversationOf(r) ==
  IF r = "A" THEN <<[role |-> "user", parts |-> <<TextPart("Hi")>>]>>
  ELSE <<[role |-> "model", parts |-> <<FunctionCallPart("f")>>],
         [role |-> "user", parts |-> <<FunctionResponsePart(Undefined, "f")>>]>>

ConcurrentEvents ==
  { [data |-> ChunkTexts[1].data], [data |-> ChunkTexts[3].data], [data |-> "[DONE]"] }

ConcurrentStreams == UNION { [1..n -> ConcurrentEvents] : n \in 0..MaxConcurrentEvents }

InitConcurrent ==
  /\ RequestIdle
  /\ ResponseIdle
  /\ SchemaIdle
  /\ ToolsIdle
  /\ StreamIdle
  /\ HandlerIdle
  /\ CleanupIdle
  /\ FormatIdle
  /\ lastFinishReason = Undefined
  /\ \E streams \in [Requests -> ConcurrentStreams] :
       inflight = [r \in Requests |->
                     [contents |-> ConversationOf(r), upstream |-> streams[r], at |-> "received",
                      readAt |-> 0, messages |-> <<>>, eventCount |-> 0, sse |-> <<>>]]
  /\ finishReasons = [r \in Requests |-> Undefined]

concurrentRest == <<translateVars, responseVars, schemaVars, toolsVars, streamVars,
                    handlerVars, cleanupVars, formatVars, lastFinishReason>>

\* translateGeminiToOpenAI(geminiPayload), up to the await of the backend call
ConcurrentTranslate(r) ==
  /\ inflight[r].at = "received"
  /\ \E t \in 0..MaxNow :
       inflight' = [inflight EXCEPT
                      ![r].messages = translateGeminiContentsToOpenAI(inflight[r].contents, <<>>, t),
                      ![r].readAt = t,
                      ![r].at = "called"]
  /\ UNCHANGED <<concurrentRest, finishReasons>>

\* the backend call returns the stream; handleGeminiStream starts its loop
ConcurrentStreamStart(r) ==
  /\ inflight[r].at = "called"
  /\ inflight' = [inflight EXCEPT ![r].at = "streaming"]
  /\ finishReasons' = [finishReasons EXCEPT ![LastFinishReasonOf(r)] = Undefined]
  /\ UNCHANGED concurrentRest

\* one iteration of the for await loop of request r
ConcurrentStreamStep(r) ==
  /\ inflight[r].at = "streaming"
  /\ inflight[r].eventCount < Len(inflight[r].upstream)
  /\ LET after == StreamStep([sse |-> inflight[r].sse,
                              last |-> finishReasons[LastFinishReasonOf(r)],
                              open |-> TRUE],
                             inflight[r].upstream[inflight[r].eventCount + 1],
                             inflight[r].eventCount + 1)
     IN /\ inflight' = [inflight EXCEPT
                          ![r].sse = after.sse,
                          ![r].eventCount = @ + 1,
                          ![r].at = IF after.open THEN "streaming" ELSE "closed"]
        /\ finishReasons' = [finishReasons EXCEPT ![LastFinishReasonOf(r)] = after.last]
  /\ UNCHANGED concurrentRest

\* the backend's stream of request r is exhausted
ConcurrentStreamEnds(r) ==
  /\ inflight[r].at = "streaming"
  /\ inflight[r].eventCount = Len(inflight[r].upstream)
  /\ inflight' = [inflight EXCEPT ![r].at = "closed"]
  /\ UNCHANGED <<concurrentRest, finishReasons>>

NextConcurrent ==
  \E r \in Requests :
    \/ ConcurrentTranslate(r)
    \/ ConcurrentStreamStart(r)
    \/ ConcurrentStreamStep(r)
    \/ ConcurrentStreamEnds(r)

SpecConcurrent == InitConcurrent /\ [][NextConcurrent]_vars

C27_StepsAreLocal ==
  [][\A r \in Requests :
       inflight'[r] # inflight[r] =>
         \A q \in Requests \ {r} :
           inflight'[q] = inflight[q] /\ finishReasons'[q] = finishReasons[q]]_vars

====
